---- MODULE Spec2Model ----
(***************************************************************************)
(* A model of metassh: the State serializer (state.go), the connection     *)
(* resolver (resolve.go, proxy.go), the per-host service loop              *)
(* (remotehost.go), command execution (run.go) and connect/disconnect      *)
(* (connect.go).                                                           *)
(*                                                                         *)
(* Channels are Go channels: an unbuffered channel is a rendezvous (the    *)
(* send completes in the step in which the receiver takes the value), a    *)
(* channel of capacity 1 is a sequence of length at most 1.                *)
(***************************************************************************)
EXTENDS Integers, Sequences, FiniteSets, TLC

(***************************************************************************)
(* Bounds of the model.                                                    *)
(***************************************************************************)
\* how many SetHostInfo/GetHostInfo calls each client goroutine of SpecHost makes
MaxHostCalls == 3
\* how many SetConnInfo/DeleteConnInfo/IncProxyCount calls each one of SpecConn makes
MaxConnCalls == 2
\* how many proxyConnect, runCmd and direct-dial goroutines SpecWait, SpecDial and SpecInfo start
MaxOps == 2
\* how many TimeoutWaiters calls SpecWait and SpecDial make
MaxAborts == 2
\* how many GetWaiterInfo calls SpecInfo makes
MaxInfoCalls == 1
\* how many connect commands SpecNet runs
MaxConnects == 2
\* how many disconnectEverywhere calls SpecNet makes
MaxTeardowns == 1
\* how many remoteHost goroutines SpecNet and SpecPar start
MaxLoops == 5
\* how many connect commands SpecPar runs, one after the other
MaxRuns == 2
\* how many connect and run operations SpecRace starts
MaxRaces == 1
\* how many requests the requesters of SpecLoop send to the inbox of the connection
MaxRequests == 3
\* how many frames the clients of SpecMux send on the control-master socket
MaxFrames == 2
\* how many clean commands SpecClean runs
MaxCleans == 1
\* how many keep-alives SpecAlive lets fail
MaxKeepAlives == 2

(***************************************************************************)
(* Identifiers.  A host is known under a name and is dialed by its ip      *)
(* address; both are plain strings to the program.                         *)
(***************************************************************************)
Names == {"a", "b"}
IPs == {"ip1", "ip2"}
Ids == Names \cup IPs

Callers == {"c1", "c2"}

\* the key each client goroutine of SpecState writes and reads
OwnKey(c) == IF c = "c1" THEN "a" ELSE "b"

VARIABLES
    \* ---- State (state.go:446-455) ----
    targets,      \* State.targets: hostName -> HostInfo
    conn,         \* State.conn: hostName -> ConnInfo
    PTR,          \* State.PTR: ip -> hostName
    serReq,       \* the request the serializer goroutine has received and is handling
    panicked,     \* the serializer goroutine died of a nil map entry dereference
    \* ---- client goroutines calling the State methods ----
    cl,           \* per caller: position in the method it is executing
    written,      \* per caller: the HostInfo of its last SetHostInfo that returned
    lastHandled,  \* the request the serializer handled last, and what it found
    \* ---- in-flight connect and run operations ----
    connWaiters,  \* State.connWaiters: hostName -> waitInfo
    runWaiters,   \* State.runWaiters: hostName -> waitInfo
    ops,          \* the proxyConnect, runCmd and direct-dial goroutines, by invocation
    tw,           \* the goroutines calling TimeoutWaiters
    wi,           \* the last WaiterInfo that GetWaiterInfo returned
    twDone,       \* operations that were outstanding at a TimeoutWaiters call that returned
    \* ---- connections: resolve, the remoteHost loops and the teardown ----
    loops,        \* the remoteHost goroutines started so far, in the order of their start
    rs,           \* the goroutine running a connect command: its position in resolve
    de,           \* the goroutine running disconnectEverywhere: its position
    torn,         \* the last client a cleanupRequest closed, and what was registered then
    \* ---- connectEverywhere with its parallel workers ----
    ce,           \* the goroutine running connectEverywhere: its position
    rv,           \* the goroutines running resolve: resolveProxies' and one per target
    \* ---- the service loop of a connection and its control master ----
    lp,           \* the remoteHost goroutines of one connection, their inbox and requesters
    mx,           \* a Mux: its listener, its handleControlMaster goroutine, its connections
    \* ---- the ssh server of the controller and an Output ----
    sv,           \* the SSHServer: its readlineSession flag and its handleChannel goroutines
    ou,           \* an Output: its serializer goroutine and the goroutines writing through it
    \* ---- the clean command ----
    kc            \* the goroutine running clean and the goroutines it starts

stateVars == <<targets, conn, PTR, serReq, panicked>>
callerVars == <<cl, written, lastHandled>>
waitVars == <<connWaiters, runWaiters, ops, tw, wi, twDone>>
netVars == <<loops, rs, de, torn>>
parVars == <<ce, rv>>
srvVars == <<lp, mx, sv, ou, kc>>
vars == <<targets, conn, PTR, serReq, panicked, cl, written, lastHandled,
          connWaiters, runWaiters, ops, tw, wi, twDone, loops, rs, de, torn, ce, rv,
          lp, mx, sv, ou, kc>>

NoReq == [type |-> "none"]
NoHost == [hostName |-> "", ipAddress |-> "", connectedOK |-> FALSE]
NoConn == [hostName |-> "", isProxy |-> FALSE, isDirect |-> FALSE,
           proxyCount |-> 0, reqChan |-> 0]

\* waitInfo.state (state.go:362-370)
stateDialing == "dialing connection"
stateEstablishing == "establishing new client connection"
stateNewClient == "creating new client"
stateDone == "done"
stateNewSession == "creating new session"
stateStartSession == "starting session"
stateRunning == "running"

OpIds == 1 .. MaxOps
TwIds == 1 .. MaxAborts

\* a waitInfo; op names the invocation whose timeoutChan the entry holds
NoWait == [hostName |-> "", state |-> "", op |-> 0]

\* an invocation of proxyConnect, runCmd or of resolve's direct-dial goroutine:
\*   pc      where the goroutine is
\*   tchan   its timeoutChan (capacity 1)
\*   timer   its sleep goroutine
\*   worker  the goroutine doing the dial, the handshake or the session
\*   res     what the worker sends on proxyclient/runResp/dialChan/errChan
\*   drain   the goroutine "go func() { <-timeoutChan }()"
\*   outcome what the caller got
NoOp == [kind |-> "none", host |-> "", pc |-> "unused", tchan |-> <<>>, timer |-> "none",
         worker |-> "none", res |-> "none", drain |-> "none", outcome |-> "none"]

NoInfo == [n |-> 0, connWaiters |-> 0, runWaiters |-> 0, atSelect |-> 0, inFlight |-> 0]

\* HostInfo values a caller may pass to SetHostInfo for key k
HostInfos(k) == {[hostName |-> k, ipAddress |-> ip, connectedOK |-> FALSE] : ip \in IPs}

\* ConnInfo values a caller may pass to SetConnInfo
ConnInfos ==
    {[hostName |-> h, isProxy |-> p, isDirect |-> ~p, proxyCount |-> 0,
      reqChan |-> IF p THEN 1 ELSE 2] :
        h \in {"a", "ip1"}, p \in BOOLEAN}

(***************************************************************************)
(* The serializer's cases (state.go:476-635), as functions of the maps.    *)
(***************************************************************************)
\* case getPTR
LookupPTR(ptr, h) == IF h \in DOMAIN ptr THEN ptr[h] ELSE h

\* a HostInfo case that, like setConnInfo, would keep the entry already present
HostInfoTargetsKeepFirst(tg, hi) ==
    IF hi.hostName \in DOMAIN tg
    THEN tg
    ELSE [k \in DOMAIN tg \cup {hi.hostName} |-> IF k = hi.hostName THEN hi ELSE tg[k]]

\* case HostInfo: s.targets[hostName] = &hiReq
HostInfoTargets(tg, hi) ==
    [k \in DOMAIN tg \cup {hi.hostName} |-> IF k = hi.hostName THEN hi ELSE tg[k]]

\* case HostInfo: s.PTR[ipAddress] = hostName
HostInfoPTR(ptr, hi) ==
    [k \in DOMAIN ptr \cup {hi.ipAddress} |-> IF k = hi.ipAddress THEN hi.hostName ELSE ptr[k]]

\* a setConnInfo case without the presence check
SetConnInfoConnOverwrite(cn, ci) ==
    [k \in DOMAIN cn \cup {ci.hostName} |-> IF k = ci.hostName THEN ci ELSE cn[k]]

\* case setConnInfo: insert only when the key is absent
SetConnInfoConn(cn, ci) ==
    IF ci.hostName \in DOMAIN cn
    THEN cn
    ELSE [k \in DOMAIN cn \cup {ci.hostName} |-> IF k = ci.hostName THEN ci ELSE cn[k]]

\* case deleteConnInfo
DeleteConnInfoConn(cn, h) == [k \in DOMAIN cn \ {h} |-> cn[k]]

\* an incProxyCount case that would write the count of the first proxied connection
IncProxyCountConnOnce(cn, h) == [cn EXCEPT ![h].proxyCount = 1]

\* case incProxyCount (the key is present)
IncProxyCountConn(cn, h) == [cn EXCEPT ![h].proxyCount = @ + 1]

\* case getHostInfo: *s.targets[hostName] (the key is present)
GetHostInfoReply(tg, h) == tg[h]

Idle == [pc |-> "idle", op |-> "none", arg |-> NoReq, nh |-> 0, nc |-> 0, ret |-> NoReq]

InitState ==
    /\ targets = [k \in {} |-> NoHost]
    /\ conn = [k \in {} |-> NoConn]
    /\ PTR = [k \in {} |-> ""]
    /\ serReq = NoReq
    /\ panicked = FALSE

InitCallers ==
    /\ cl = [c \in Callers |-> Idle]
    /\ written = [c \in Callers |-> NoHost]
    /\ lastHandled = NoReq

InitWaiters ==
    /\ connWaiters = [k \in {} |-> NoWait]
    /\ runWaiters = [k \in {} |-> NoWait]
    /\ ops = [o \in OpIds |-> NoOp]
    /\ tw = [t \in TwIds |-> "idle"]
    /\ wi = NoInfo
    /\ twDone = {}

\* no connect command and no teardown has started, no remoteHost goroutine runs
NoCall == [chain |-> <<>>, isProxy |-> FALSE]
NoTorn == [hostName |-> "", isProxy |-> FALSE, isDirect |-> FALSE, phase |-> 0,
           nonProxies |-> {}, indirect |-> {}, dependents |-> {}]
InitNet ==
    /\ loops = <<>>
    /\ rs = [n |-> 0, pc |-> "idle", todo |-> <<>>, call |-> NoCall, idx |-> 0,
             ci |-> NoConn, via |-> 0, chan |-> 0, dials |-> 0]
    /\ de = [n |-> 0, pc |-> "idle", phase |-> 0, ck |-> {}, key |-> "", ci |-> NoConn,
             left |-> 0]
    /\ torn = NoTorn

\* the targets of connectEverywhere, and the goroutines that run resolve for it:
\* its own, inside resolveProxies, and one worker per target
ParTargets == {"b", "c"}
ParResolvers == {"proxies"} \cup ParTargets
NoResolve == [pc |-> "idle", chain |-> <<>>, isProxy |-> FALSE, idx |-> 0, ci |-> NoConn,
              via |-> 0, chan |-> 0, dials |-> 0, err |-> FALSE, failed |-> FALSE,
              made |-> {}, skipped |-> {}]
\* config.go:24: the default of the option Concurrency
Concurrency == 65536
\* unnamed/part_000:23: the concurrency with ssh-agent authentication
AgentConcurrency == 128
\* connectEverywhere before its first call: the options Agent and Concurrency of e.c at
\* their defaults, the limiter empty
NoConnectEverywhere ==
    [n |-> 0, pc |-> "idle", hk |-> {}, chainMap |-> {}, agent |-> FALSE,
     concurrency |-> Concurrency, limiter |-> 0]
InitPar ==
    /\ ce = NoConnectEverywhere
    /\ rv = [r \in ParResolvers |-> NoResolve]

\* no service loop and no Mux is modelled in detail
NoLoops == [cfg |-> "none"]
NoMux == [cfg |-> "none"]
\* no ssh server and no Output is modelled in detail
NoServer == [cfg |-> "none"]
NoOutput == [cfg |-> "none"]
\* no clean command has run
NoCleaner == [pc |-> "none", hi |-> NoHost, ci |-> NoConn]
NoClean == [n |-> 0, pc |-> "idle", hk |-> {}, i |-> 0, ran |-> {},
            w |-> [t \in ParTargets |-> NoCleaner]]
InitUi ==
    /\ sv = NoServer
    /\ ou = NoOutput
    /\ kc = NoClean
InitSrv ==
    /\ lp = NoLoops
    /\ mx = NoMux
    /\ InitUi

Init == InitState /\ InitCallers /\ InitWaiters /\ InitNet /\ InitPar /\ InitSrv

\* s.reqChan <- req: the serializer is at its receive (state.go:478)
CanSend == serReq = NoReq /\ ~panicked

MayCallHost(c) == cl[c].pc = "idle" /\ cl[c].nh < MaxHostCalls
MayCallConn(c) == cl[c].pc = "idle" /\ cl[c].nc < MaxConnCalls

(***************************************************************************)
(* State.SetHostInfo (state.go:245-247): one send, no reply channel.       *)
(***************************************************************************)
SetHostInfo(c) ==
    \E hi \in HostInfos(OwnKey(c)) :
        /\ MayCallHost(c) /\ CanSend
        /\ serReq' = [type |-> "HostInfo", hi |-> hi, from |-> c]
        /\ cl' = [cl EXCEPT ![c] = [Idle EXCEPT !.nh = cl[c].nh + 1, !.nc = cl[c].nc,
                                                !.op = "SetHostInfo"]]
        /\ written' = [written EXCEPT ![c] = hi]
        /\ UNCHANGED <<parVars, srvVars, netVars, waitVars, targets, conn, PTR, panicked, lastHandled>>

(***************************************************************************)
(* State.GetHostInfo (state.go:206-219): HostExists, then getHostInfo.     *)
(***************************************************************************)
GetHostInfoCall(c) ==
    /\ MayCallHost(c) /\ CanSend
    /\ serReq' = [type |-> "hostExists", hostName |-> OwnKey(c), from |-> c]
    /\ cl' = [cl EXCEPT ![c] = [pc |-> "ghi_exists", op |-> "GetHostInfo",
                                arg |-> [type |-> "key", hostName |-> OwnKey(c)],
                                nh |-> cl[c].nh + 1, nc |-> cl[c].nc, ret |-> NoReq]]
    /\ UNCHANGED <<parVars, srvVars, netVars, waitVars, targets, conn, PTR, panicked, written, lastHandled>>

\* state.go:207-210: the host does not exist, return the error
GetHostInfoAbsent(c) ==
    /\ cl[c].pc = "ghi_checked" /\ cl[c].ret.exists = FALSE
    /\ cl' = [cl EXCEPT ![c].pc = "idle",
                        ![c].ret = [type |-> "HostInfo", err |-> TRUE, hi |-> NoHost]]
    /\ UNCHANGED <<parVars, srvVars, netVars, waitVars, targets, conn, PTR, serReq, panicked, written, lastHandled>>

\* state.go:211-216: send getHostInfo
GetHostInfoSend(c) ==
    /\ cl[c].pc = "ghi_checked" /\ cl[c].ret.exists = TRUE
    /\ CanSend
    /\ serReq' = [type |-> "getHostInfo", hostName |-> cl[c].arg.hostName, from |-> c]
    /\ cl' = [cl EXCEPT ![c].pc = "ghi_wait"]
    /\ UNCHANGED <<parVars, srvVars, netVars, waitVars, targets, conn, PTR, panicked, written, lastHandled>>

(***************************************************************************)
(* State.SetConnInfo (state.go:305-308): GetPTR, then setConnInfo.         *)
(***************************************************************************)
SetConnInfoCall(c) ==
    \E ci \in ConnInfos :
        /\ MayCallConn(c) /\ CanSend
        /\ serReq' = [type |-> "getPTR", hostName |-> ci.hostName, from |-> c]
        /\ cl' = [cl EXCEPT ![c] = [pc |-> "sci_ptr", op |-> "SetConnInfo", arg |-> ci,
                                    nh |-> cl[c].nh, nc |-> cl[c].nc + 1, ret |-> NoReq]]
        /\ UNCHANGED <<parVars, srvVars, netVars, waitVars, targets, conn, PTR, panicked, written, lastHandled>>

SetConnInfoSend(c) ==
    /\ cl[c].pc = "sci_named" /\ CanSend
    /\ serReq' = [type |-> "setConnInfo", from |-> c,
                  ci |-> [cl[c].arg EXCEPT !.hostName = cl[c].ret.hostName]]
    /\ cl' = [cl EXCEPT ![c].pc = "idle"]
    /\ UNCHANGED <<parVars, srvVars, netVars, waitVars, targets, conn, PTR, panicked, written, lastHandled>>

(***************************************************************************)
(* State.DeleteConnInfo (state.go:330-335) and State.IncProxyCount         *)
(* (state.go:122-124).                                                     *)
(***************************************************************************)
\* the identifiers a caller passes for a connection: the name of the host, or its address
ConnIds == {"a", "ip1"}

DeleteConnInfo(c) ==
    \E h \in ConnIds :
        /\ MayCallConn(c) /\ CanSend
        /\ serReq' = [type |-> "deleteConnInfo", hostName |-> h, from |-> c]
        /\ cl' = [cl EXCEPT ![c] = [pc |-> "dci_wait", op |-> "DeleteConnInfo",
                                    arg |-> [type |-> "key", hostName |-> h],
                                    nh |-> cl[c].nh, nc |-> cl[c].nc + 1, ret |-> NoReq]]
        /\ UNCHANGED <<parVars, srvVars, netVars, waitVars, targets, conn, PTR, panicked, written, lastHandled>>

IncProxyCount(c) ==
    \E h \in ConnIds :
        /\ MayCallConn(c) /\ CanSend
        /\ serReq' = [type |-> "incProxyCount", hostName |-> h, from |-> c]
        /\ cl' = [cl EXCEPT ![c] = [Idle EXCEPT !.nh = cl[c].nh, !.nc = cl[c].nc + 1,
                                                !.op = "IncProxyCount"]]
        /\ UNCHANGED <<parVars, srvVars, netVars, waitVars, targets, conn, PTR, panicked, written, lastHandled>>

(***************************************************************************)
(* State.ConnExists (state.go:312-321).                                    *)
(***************************************************************************)
ConnExists(c) ==
    \E h \in ConnIds :
        /\ MayCallConn(c) /\ CanSend
        /\ serReq' = [type |-> "connExists", hostName |-> h, from |-> c]
        /\ cl' = [cl EXCEPT ![c] = [pc |-> "ce_wait", op |-> "ConnExists",
                                    arg |-> [type |-> "key", hostName |-> h],
                                    nh |-> cl[c].nh, nc |-> cl[c].nc + 1, ret |-> NoReq]]
        /\ UNCHANGED <<parVars, srvVars, netVars, waitVars, targets, conn, PTR, panicked, written, lastHandled>>

(***************************************************************************)
(* State.serializer (state.go:476-635): handle the request it received,    *)
(* reply on the request's channel if it has one, go back to the receive.   *)
(***************************************************************************)
Reply(c, pc, ret) == cl' = [cl EXCEPT ![c].pc = pc, ![c].ret = ret]

SerHostInfo ==
    /\ serReq.type = "HostInfo"
    /\ targets' = HostInfoTargets(targets, serReq.hi)
    /\ PTR' = HostInfoPTR(PTR, serReq.hi)
    /\ lastHandled' = serReq
    /\ UNCHANGED <<conn, panicked, cl>>

SerHostExists ==
    /\ serReq.type = "hostExists"
    /\ Reply(serReq.from, "ghi_checked",
             [type |-> "bool", exists |-> serReq.hostName \in DOMAIN targets])
    /\ lastHandled' = serReq
    /\ UNCHANGED <<targets, conn, PTR, panicked>>

SerGetHostInfo ==
    /\ serReq.type = "getHostInfo"
    /\ IF serReq.hostName \in DOMAIN targets
       THEN /\ Reply(serReq.from, "idle",
                     [type |-> "HostInfo", err |-> FALSE,
                      hi |-> GetHostInfoReply(targets, serReq.hostName)])
            /\ UNCHANGED panicked
       ELSE panicked' = TRUE /\ UNCHANGED cl
    /\ lastHandled' = serReq
    /\ UNCHANGED <<targets, conn, PTR>>

SerGetPTR ==
    /\ serReq.type = "getPTR"
    /\ Reply(serReq.from, "sci_named",
             [type |-> "name", hostName |-> LookupPTR(PTR, serReq.hostName)])
    /\ lastHandled' = serReq
    /\ UNCHANGED <<targets, conn, PTR, panicked>>

SerSetConnInfo ==
    /\ serReq.type = "setConnInfo"
    /\ conn' = SetConnInfoConn(conn, serReq.ci)
    /\ lastHandled' = [type |-> "setConnInfo", ci |-> serReq.ci, from |-> serReq.from,
                       existed |-> serReq.ci.hostName \in DOMAIN conn]
    /\ UNCHANGED <<targets, PTR, panicked, cl>>

SerConnExists ==
    /\ serReq.type = "connExists"
    /\ Reply(serReq.from, "idle", [type |-> "bool", exists |-> serReq.hostName \in DOMAIN conn])
    /\ lastHandled' = serReq
    /\ UNCHANGED <<targets, conn, PTR, panicked>>

SerDeleteConnInfo ==
    /\ serReq.type = "deleteConnInfo"
    /\ conn' = DeleteConnInfoConn(conn, serReq.hostName)
    /\ Reply(serReq.from, "idle", [type |-> "bool", exists |-> TRUE])
    /\ lastHandled' = serReq
    /\ UNCHANGED <<targets, PTR, panicked>>

SerIncProxyCount ==
    /\ serReq.type = "incProxyCount"
    /\ IF serReq.hostName \in DOMAIN conn
       THEN conn' = IncProxyCountConn(conn, serReq.hostName) /\ UNCHANGED panicked
       ELSE panicked' = TRUE /\ UNCHANGED conn
    /\ lastHandled' = serReq
    /\ UNCHANGED <<targets, PTR, cl>>

\* one turn of the serializer's loop, taking the case H of its switch
serializer(H) ==
    /\ ~panicked
    /\ serReq' = NoReq
    /\ UNCHANGED <<written, waitVars, netVars, parVars, srvVars>>
    /\ H

(***************************************************************************)
(* SpecHost: client goroutines calling SetHostInfo and GetHostInfo, each   *)
(* on its own key, against the serializer.                                 *)
(***************************************************************************)
NextHost ==
    \/ \E c \in Callers : SetHostInfo(c)
    \/ \E c \in Callers : GetHostInfoCall(c)
    \/ \E c \in Callers : GetHostInfoAbsent(c)
    \/ \E c \in Callers : GetHostInfoSend(c)
    \/ serializer(SerHostInfo)
    \/ serializer(SerHostExists)
    \/ serializer(SerGetHostInfo)

SpecHost == Init /\ [][NextHost]_vars

\* C2: a GetHostInfo(k) that a caller issued after its SetHostInfo(H), H.hostName = k,
\* had returned, returns H, the last value the caller wrote for k, and no error and
\* no zero value; this although SetHostInfo returns as soon as the serializer has
\* taken the request, before the write is applied.
C2_GetReturnsLastSet ==
    \A c \in Callers :
        (cl[c].pc = "idle" /\ cl[c].op = "GetHostInfo" /\ written[c] # NoHost)
            => cl[c].ret = [type |-> "HostInfo", err |-> FALSE, hi |-> written[c]]

\* C2 witness: a caller overwrote its key (two SetHostInfo with different values),
\* read it back, and the other caller has a write the serializer has not applied yet.
C2_Witness ==
    \E c \in Callers, d \in Callers :
        /\ c # d
        /\ cl[c].pc = "idle" /\ cl[c].op = "GetHostInfo" /\ cl[c].nh = 3
        /\ cl[c].ret.type = "HostInfo" /\ cl[c].ret.err = FALSE
        /\ cl[c].ret.hi = written[c] /\ written[c].ipAddress = "ip2"
        /\ PTR = [k \in {"ip1", "ip2"} |-> OwnKey(c)]
        /\ serReq.type = "HostInfo" /\ serReq.from = d

(***************************************************************************)
(* SpecConn: client goroutines calling SetConnInfo, DeleteConnInfo and     *)
(* IncProxyCount (the calls resolve and disconnectHost make on the         *)
(* connection map), with the target "a" loaded or not.                     *)
(***************************************************************************)
LoadedA == [hostName |-> "a", ipAddress |-> "ip1", connectedOK |-> FALSE]

InitConn ==
    /\ \/ targets = [k \in {} |-> NoHost] /\ PTR = [k \in {} |-> ""]
       \/ /\ targets = HostInfoTargets([k \in {} |-> NoHost], LoadedA)
          /\ PTR = HostInfoPTR([k \in {} |-> ""], LoadedA)
    /\ conn = [k \in {} |-> NoConn]
    /\ serReq = NoReq
    /\ panicked = FALSE
    /\ InitCallers /\ InitWaiters /\ InitNet /\ InitPar /\ InitSrv

NextConn ==
    \/ \E c \in Callers : SetConnInfoCall(c)
    \/ \E c \in Callers : SetConnInfoSend(c)
    \/ \E c \in Callers : DeleteConnInfo(c)
    \/ \E c \in Callers : IncProxyCount(c)
    \/ \E c \in Callers : ConnExists(c)
    \/ serializer(SerGetPTR)
    \/ serializer(SerSetConnInfo)
    \/ serializer(SerConnExists)
    \/ serializer(SerDeleteConnInfo)
    \/ serializer(SerIncProxyCount)

SpecConn == InitConn /\ [][NextConn]_vars

\* C1: the connection map holds one ConnInfo per canonical hostname (every entry is
\* stored under the hostname SetConnInfo normalized, so two entries never carry the
\* same hostname), and the serializer handling a setConnInfo for a hostname that is
\* registered leaves the map, hence the existing entry, as it was.
C1_ConnUnique ==
    [][ /\ \A k \in DOMAIN conn' : conn'[k].hostName = k
        /\ (serReq.type = "setConnInfo" /\ serReq.ci.hostName \in DOMAIN conn)
              => conn' = conn ]_vars

\* C1 witness: the target "a" is registered, and a SetConnInfo given its ip address
\* and other attributes was normalized to "a" and handled, the entry surviving.
C1_Witness ==
    /\ lastHandled.type = "setConnInfo" /\ lastHandled.existed
    /\ lastHandled.ci.hostName = "a"
    /\ cl[lastHandled.from].op = "SetConnInfo"
    /\ cl[lastHandled.from].arg.hostName = "ip1"
    /\ "a" \in DOMAIN conn /\ conn["a"].isProxy # lastHandled.ci.isProxy
    /\ conn["a"].proxyCount = 1

\* C11: the serializer never panics: whatever request it receives and whatever the maps
\* hold, also an incProxyCount for a hostname that is not registered (any more), it
\* handles the request and goes on serving.
C11_SerializerNeverPanics == ~panicked

\* C17: every identifier is normalized through GetPTR before it is used as a key of the
\* connection map, on writes and on lookups: the entries are stored under normalized
\* names, and for an identifier i (an ip address with a PTR entry included) ConnExists(i)
\* tells whether GetPTR(i) is registered, IncProxyCount(i) counts on the entry of
\* GetPTR(i), and DeleteConnInfo(i) removes it.
C17_NormalizedKeys ==
    [][LET n == LookupPTR(PTR, serReq.hostName)
       IN  /\ \A k \in DOMAIN conn' : k = LookupPTR(PTR, k)
           /\ (serReq.type = "connExists" /\ serReq' = NoReq)
                 => cl'[serReq.from].ret.exists = (n \in DOMAIN conn)
           /\ (serReq.type = "incProxyCount" /\ serReq' = NoReq /\ n \in DOMAIN conn)
                 => conn'[n].proxyCount = conn[n].proxyCount + 1
           /\ (serReq.type = "deleteConnInfo" /\ serReq' = NoReq)
                 => n \notin DOMAIN conn']_vars

(***************************************************************************)
(* In-flight operations: proxyConnect (proxy.go), runCmd (run.go) and the  *)
(* direct-dial goroutine of resolve (resolve.go:88-123), each racing a     *)
(* worker against a timer on its timeoutChan, and TimeoutWaiters.          *)
(*                                                                         *)
(* A State call that is one request and its reply, or one request without  *)
(* reply, is taken and handled by the serializer in one step; the GetPTR   *)
(* round trip that opens SetConnWaitInfo, SetConnWaitState, SetConnInfo    *)
(* and the like reads the PTR map only, which no action of SpecWait        *)
(* changes, and is part of the step of the request that follows it.  The   *)
(* timeoutWaiters case is not one step: each of its sends can block.       *)
(***************************************************************************)
WaitHosts == {"a", "b"}
LoadedB == [hostName |-> "b", ipAddress |-> "ip2", connectedOK |-> FALSE]

\* case setConnWaitInfo, setRunWaitInfo
SetWaitInfo(ws, w) ==
    [k \in DOMAIN ws \cup {w.hostName} |-> IF k = w.hostName THEN w ELSE ws[k]]

\* case deleteConnWaitInfo, deleteRunWaitInfo
DeleteWaitInfo(ws, h) == [k \in DOMAIN ws \ {h} |-> ws[k]]

\* case setConnWaitState, setRunWaitState
SetWaitState(ws, h, st) == IF h \in DOMAIN ws THEN [ws EXCEPT ![h].state = st] ELSE ws

\* case getWaiterInfo: the two counts of the reply
WaiterCount(ws) == Cardinality(DOMAIN ws)

\* a send on a timeoutChan goes through when its buffer has room
HasRoom(o) == Len(ops[o].tchan) = 0

\* operations are started in the order of their ids
NextOp(o) == ops[o].pc = "unused" /\ \A q \in OpIds : q < o => ops[q].pc # "unused"

\* the hosts the operation o may be for: the first operation is for "a" (the two hosts
\* are alike), a later one for the same host or the other one
OpHosts(o) == IF o = 1 THEN {"a"} ELSE WaitHosts

unchangedByOp == <<targets, PTR, serReq, panicked, cl, written, lastHandled, tw, wi, twDone,
                   netVars, parVars, srvVars>>

(***************************************************************************)
(* proxyConnect (proxy.go:89-160)                                          *)
(***************************************************************************)
\* remotehost.go:100-102: the loop took a proxyRequest: go proxyConnect(pReq, e, client)
StartProxyConnect(o) ==
    \E h \in OpHosts(o) :
        /\ NextOp(o)
        /\ ops' = [ops EXCEPT ![o] = [NoOp EXCEPT !.kind = "proxy", !.host = h, !.pc = "start"]]
        /\ UNCHANGED <<conn, connWaiters, runWaiters, unchangedByOp>>

\* proxy.go:91-97,101,133: SetConnWaitInfo, defer, go the worker, go the timer
ProxyRegister(o) ==
    /\ ops[o].kind = "proxy" /\ ops[o].pc = "start" /\ CanSend
    /\ connWaiters' = SetWaitInfo(connWaiters,
            [hostName |-> LookupPTR(PTR, ops[o].host), state |-> stateDialing, op |-> o])
    /\ ops' = [ops EXCEPT ![o].pc = "select", ![o].worker = "config", ![o].timer = "sleeping"]
    /\ UNCHANGED <<conn, runWaiters, unchangedByOp>>

\* proxy.go:102-103: the worker reads the ssh config from the State
ProxyWorkerConfig(o) ==
    /\ ops[o].kind = "proxy" /\ ops[o].worker = "config" /\ CanSend
    /\ ops' = [ops EXCEPT ![o].worker = stateDialing]
    /\ UNCHANGED <<conn, connWaiters, runWaiters, unchangedByOp>>

\* proxy.go:115-120: client.Dial succeeded, SetConnWaitState(stateEstablishing)
ProxyWorkerDialed(o) ==
    /\ ops[o].kind = "proxy" /\ ops[o].worker = stateDialing /\ CanSend
    /\ connWaiters' = SetWaitState(connWaiters, LookupPTR(PTR, ops[o].host), stateEstablishing)
    /\ ops' = [ops EXCEPT ![o].worker = stateEstablishing]
    /\ UNCHANGED <<conn, runWaiters, unchangedByOp>>

\* proxy.go:121-126: NewClientConn succeeded, SetConnWaitState(stateNewClient)
ProxyWorkerEstablished(o) ==
    /\ ops[o].kind = "proxy" /\ ops[o].worker = stateEstablishing /\ CanSend
    /\ connWaiters' = SetWaitState(connWaiters, LookupPTR(PTR, ops[o].host), stateNewClient)
    /\ ops' = [ops EXCEPT ![o].worker = stateNewClient]
    /\ UNCHANGED <<conn, runWaiters, unchangedByOp>>

\* proxy.go:127-129: NewClient, SetConnWaitState(stateDone), done <- the client
ProxyWorkerNewClient(o) ==
    /\ ops[o].kind = "proxy" /\ ops[o].worker = stateNewClient /\ CanSend
    /\ connWaiters' = SetWaitState(connWaiters, LookupPTR(PTR, ops[o].host), stateDone)
    /\ ops' = [ops EXCEPT ![o].worker = "sending", ![o].res = "ok"]
    /\ UNCHANGED <<conn, runWaiters, unchangedByOp>>

\* proxy.go:116-119,122-125: the dial or the handshake failed, done <- the error
ProxyWorkerFailed(o) ==
    /\ ops[o].kind = "proxy" /\ ops[o].worker \in {stateDialing, stateEstablishing}
    /\ ops' = [ops EXCEPT ![o].worker = "sending", ![o].res = "err"]
    /\ UNCHANGED <<conn, connWaiters, runWaiters, unchangedByOp>>

(***************************************************************************)
(* runCmd (run.go: main.go:175-312, and the other run.go of the tree,      *)
(* unnamed/part_002:26-162)                                                *)
(***************************************************************************)
\* remotehost.go:103-105: the loop took a runRequest: go runCmd(me, rReq, client, e)
StartRunCmd(o) ==
    \E h \in OpHosts(o) :
        /\ NextOp(o)
        /\ ops' = [ops EXCEPT ![o] = [NoOp EXCEPT !.kind = "run", !.host = h, !.pc = "start"]]
        /\ UNCHANGED <<conn, connWaiters, runWaiters, unchangedByOp>>

\* main.go:180-182: SetRunWaitInfo, defer DeleteRunWaitInfo
RunRegister(o) ==
    /\ ops[o].kind = "run" /\ ops[o].pc = "start" /\ CanSend
    /\ runWaiters' = SetWaitInfo(runWaiters,
            [hostName |-> LookupPTR(PTR, ops[o].host), state |-> stateNewSession, op |-> o])
    /\ ops' = [ops EXCEPT ![o].pc = "registered"]
    /\ UNCHANGED <<conn, connWaiters, unchangedByOp>>

\* main.go:184,286-288: go the worker, go sleep, select
RunSpawn(o) ==
    /\ ops[o].kind = "run" /\ ops[o].pc = "registered"
    /\ ops' = [ops EXCEPT ![o].pc = "select", ![o].worker = stateNewSession,
                          ![o].timer = "sleeping"]
    /\ UNCHANGED <<conn, connWaiters, runWaiters, unchangedByOp>>

\* unnamed/part_002:63-67: NewSession fails in runCmd itself, which sends the error on
\* the unbuffered runResp before the goroutines and the select that receive from it exist
RunNewSessionBlocks(o) ==
    /\ ops[o].kind = "run" /\ ops[o].pc = "registered"
    /\ ops' = [ops EXCEPT ![o].pc = "blocked", ![o].res = "err"]
    /\ UNCHANGED <<conn, connWaiters, runWaiters, unchangedByOp>>

\* main.go:214-257: NewSession succeeded, SetRunWaitState(stateStartSession)
RunWorkerSession(o) ==
    /\ ops[o].kind = "run" /\ ops[o].worker = stateNewSession /\ CanSend
    /\ runWaiters' = SetWaitState(runWaiters, LookupPTR(PTR, ops[o].host), stateStartSession)
    /\ ops' = [ops EXCEPT ![o].worker = stateStartSession]
    /\ UNCHANGED <<conn, connWaiters, unchangedByOp>>

\* main.go:258-262: session.Start succeeded, SetRunWaitState(stateRunning)
RunWorkerStarted(o) ==
    /\ ops[o].kind = "run" /\ ops[o].worker = stateStartSession /\ CanSend
    /\ runWaiters' = SetWaitState(runWaiters, LookupPTR(PTR, ops[o].host), stateRunning)
    /\ ops' = [ops EXCEPT ![o].worker = stateRunning]
    /\ UNCHANGED <<conn, connWaiters, unchangedByOp>>

\* main.go:263-284: session.Wait returned, SetRunWaitState(stateDone), done <- the response
RunWorkerWaited(o) ==
    /\ ops[o].kind = "run" /\ ops[o].worker = stateRunning /\ CanSend
    /\ runWaiters' = SetWaitState(runWaiters, LookupPTR(PTR, ops[o].host), stateDone)
    /\ ops' = [ops EXCEPT ![o].worker = "sending", ![o].res = "ok"]
    /\ UNCHANGED <<conn, connWaiters, unchangedByOp>>

\* main.go:214-218,258-261: NewSession or session.Start failed in the worker, which
\* sends the error
RunWorkerFailed(o) ==
    /\ ops[o].kind = "run" /\ ops[o].worker \in {stateNewSession, stateStartSession}
    /\ ops' = [ops EXCEPT ![o].worker = "sending", ![o].res = "err"]
    /\ UNCHANGED <<conn, connWaiters, runWaiters, unchangedByOp>>

(***************************************************************************)
(* The select of proxyConnect (proxy.go:138-159) and of runCmd             *)
(* (main.go:288-311), and the deferred delete.                             *)
(***************************************************************************)
\* case resp := <-proxyclient / <-runResp: forward it, go func() { <-timeout }(), return
OpSelectResult(o) ==
    /\ ops[o].kind \in {"proxy", "run"} /\ ops[o].pc = "select"
    /\ ops[o].worker = "sending"
    /\ ops' = [ops EXCEPT ![o].pc = "deferred", ![o].worker = "done",
                          ![o].outcome = ops[o].res, ![o].drain = "waiting"]
    /\ UNCHANGED <<conn, connWaiters, runWaiters, unchangedByOp>>

\* a select that would reply "timed out" whatever value it took from the timeout channel
OpSelectTimeoutOrganic(o) ==
    /\ ops[o].kind \in {"proxy", "run"} /\ ops[o].pc = "select"
    /\ ops[o].tchan # <<>>
    /\ ops' = [ops EXCEPT ![o].pc = "deferred", ![o].tchan = Tail(@),
                          ![o].outcome = "timed out"]
    /\ UNCHANGED <<conn, connWaiters, runWaiters, unchangedByOp>>

\* case organic := <-timeout: reply "timed out" or "aborted", go the straggler drain, return
OpSelectTimeout(o) ==
    /\ ops[o].kind \in {"proxy", "run"} /\ ops[o].pc = "select"
    /\ ops[o].tchan # <<>>
    /\ ops' = [ops EXCEPT ![o].pc = "deferred", ![o].tchan = Tail(@),
                          ![o].outcome = IF Head(ops[o].tchan) THEN "timed out" ELSE "aborted"]
    /\ UNCHANGED <<conn, connWaiters, runWaiters, unchangedByOp>>

\* proxy.go:97 / main.go:182: the deferred DeleteConnWaitInfo / DeleteRunWaitInfo
OpDelete(o) ==
    /\ ops[o].kind \in {"proxy", "run"} /\ ops[o].pc = "deferred" /\ CanSend
    /\ IF ops[o].kind = "proxy"
       THEN /\ connWaiters' = DeleteWaitInfo(connWaiters, LookupPTR(PTR, ops[o].host))
            /\ UNCHANGED runWaiters
       ELSE /\ runWaiters' = DeleteWaitInfo(runWaiters, LookupPTR(PTR, ops[o].host))
            /\ UNCHANGED connWaiters
    /\ ops' = [ops EXCEPT ![o].pc = "done"]
    /\ UNCHANGED <<conn, unchangedByOp>>

\* proxy.go:153-157 / main.go:306-309 / resolve.go:112-119: the straggler is received
StragglerDrained(o) ==
    /\ ops[o].pc \in {"deferred", "done"} /\ ops[o].worker = "sending"
    /\ ops' = [ops EXCEPT ![o].worker = "done"]
    /\ UNCHANGED <<conn, connWaiters, runWaiters, unchangedByOp>>

\* resolve.go:144-148 sleep / proxy.go:133-136: the timer sends true
TimerFire(o) ==
    /\ ops[o].timer = "sleeping" /\ HasRoom(o)
    /\ ops' = [ops EXCEPT ![o].timer = "done", ![o].tchan = <<TRUE>>]
    /\ UNCHANGED <<conn, connWaiters, runWaiters, unchangedByOp>>

\* go func() { <-timeout }()
DrainTimeout(o) ==
    /\ ops[o].drain = "waiting" /\ ops[o].tchan # <<>>
    /\ ops' = [ops EXCEPT ![o].drain = "done", ![o].tchan = Tail(@)]
    /\ UNCHANGED <<conn, connWaiters, runWaiters, unchangedByOp>>

(***************************************************************************)
(* The direct-dial goroutine of resolve (resolve.go:88-123), for a target  *)
(* whose chain is the target alone (isProxy = false).                      *)
(***************************************************************************)
\* resolve.go:88-95: go directConnect, go sleep, select; no waiter is registered
StartDirectDial(o) ==
    \E h \in OpHosts(o) :
        /\ NextOp(o)
        /\ ops' = [ops EXCEPT ![o] = [NoOp EXCEPT !.kind = "direct", !.host = h, !.pc = "select",
                                                 !.worker = stateDialing, !.timer = "sleeping"]]
        /\ UNCHANGED <<conn, connWaiters, runWaiters, unchangedByOp>>

\* resolve.go:133-142 directConnect: ssh.Dial returned
DirectWorkerDone(o) ==
    \E r \in {"ok", "err"} :
        /\ ops[o].kind = "direct" /\ ops[o].worker = stateDialing
        /\ ops' = [ops EXCEPT ![o].worker = "sending", ![o].res = r]
        /\ UNCHANGED <<conn, connWaiters, runWaiters, unchangedByOp>>

\* resolve.go:98-99: case sshClient := <-dialChan: go remoteHost
DirectSelectClient(o) ==
    /\ ops[o].kind = "direct" /\ ops[o].pc = "select"
    /\ ops[o].worker = "sending" /\ ops[o].res = "ok"
    /\ ops' = [ops EXCEPT ![o].pc = "setconn", ![o].worker = "done", ![o].outcome = "connected"]
    /\ UNCHANGED <<conn, connWaiters, runWaiters, unchangedByOp>>

\* resolve.go:100-106: SetConnInfo, go func() { <-timeoutChan }()
DirectSetConnInfo(o) ==
    /\ ops[o].kind = "direct" /\ ops[o].pc = "setconn" /\ CanSend
    /\ conn' = SetConnInfoConn(conn, [hostName |-> LookupPTR(PTR, ops[o].host), isProxy |-> FALSE,
                                      isDirect |-> TRUE, proxyCount |-> 0, reqChan |-> o])
    /\ ops' = [ops EXCEPT ![o].pc = "done", ![o].drain = "waiting"]
    /\ UNCHANGED <<connWaiters, runWaiters, unchangedByOp>>

\* resolve.go:107-110: case dcErr := <-errChan
DirectSelectErr(o) ==
    /\ ops[o].kind = "direct" /\ ops[o].pc = "select"
    /\ ops[o].worker = "sending" /\ ops[o].res = "err"
    /\ ops' = [ops EXCEPT ![o].pc = "done", ![o].worker = "done", ![o].outcome = "err",
                          ![o].drain = "waiting"]
    /\ UNCHANGED <<conn, connWaiters, runWaiters, unchangedByOp>>

\* resolve.go:111-120: case <-timeoutChan: return, whatever the value
DirectSelectTimeout(o) ==
    /\ ops[o].kind = "direct" /\ ops[o].pc = "select"
    /\ ops[o].tchan # <<>>
    /\ ops' = [ops EXCEPT ![o].pc = "done", ![o].tchan = Tail(@), ![o].outcome = "gave up"]
    /\ UNCHANGED <<conn, connWaiters, runWaiters, unchangedByOp>>

(***************************************************************************)
(* State.TimeoutWaiters (state.go:437-441) and the serializer's case       *)
(* timeoutWaiters (state.go:480-488)                                       *)
(***************************************************************************)
\* the connects and runs that are blocked in their select
Outstanding == {o \in OpIds : ops[o].pc = "select"}

\* s.reqChan <- timeoutWaiters{respChan}: the serializer starts its two range loops
TimeoutWaiters(t) ==
    /\ tw[t] = "idle" /\ \A u \in TwIds : u < t => tw[u] # "idle"
    /\ CanSend
    /\ serReq' = [type |-> "timeoutWaiters", from |-> t, connLeft |-> DOMAIN connWaiters,
                  runLeft |-> DOMAIN runWaiters, outstanding |-> Outstanding]
    /\ tw' = [tw EXCEPT ![t] = "waiting"]
    /\ UNCHANGED <<parVars, srvVars, netVars, targets, conn, PTR, panicked, cl, written, lastHandled,
                   connWaiters, runWaiters, ops, wi, twDone>>

\* state.go:482-484: s.connWaiters[k].timeoutChan <- false
SerTimeoutConn ==
    /\ serReq.type = "timeoutWaiters"
    /\ \E k \in serReq.connLeft :
        /\ HasRoom(connWaiters[k].op)
        /\ ops' = [ops EXCEPT ![connWaiters[k].op].tchan = <<FALSE>>]
        /\ serReq' = [serReq EXCEPT !.connLeft = @ \ {k}]
    /\ UNCHANGED <<parVars, srvVars, netVars, targets, conn, PTR, panicked, cl, written, lastHandled,
                   connWaiters, runWaiters, tw, wi, twDone>>

\* state.go:485-487: s.runWaiters[k].timeoutChan <- false
SerTimeoutRun ==
    /\ serReq.type = "timeoutWaiters" /\ serReq.connLeft = {}
    /\ \E k \in serReq.runLeft :
        /\ HasRoom(runWaiters[k].op)
        /\ ops' = [ops EXCEPT ![runWaiters[k].op].tchan = <<FALSE>>]
        /\ serReq' = [serReq EXCEPT !.runLeft = @ \ {k}]
    /\ UNCHANGED <<parVars, srvVars, netVars, targets, conn, PTR, panicked, cl, written, lastHandled,
                   connWaiters, runWaiters, tw, wi, twDone>>

\* state.go:488: twReq.respChan <- true
SerTimeoutReply ==
    /\ serReq.type = "timeoutWaiters" /\ serReq.connLeft = {} /\ serReq.runLeft = {}
    /\ serReq' = NoReq
    /\ tw' = [tw EXCEPT ![serReq.from] = "done"]
    /\ twDone' = twDone \cup serReq.outstanding
    /\ UNCHANGED <<parVars, srvVars, netVars, targets, conn, PTR, panicked, cl, written, lastHandled,
                   connWaiters, runWaiters, ops, wi>>

(***************************************************************************)
(* State.GetWaiterInfo (state.go:355-360, case getWaiterInfo 489-520)      *)
(***************************************************************************)
\* connects that are blocked in their select, and connects started and not yet returned
ConnectsAtSelect == Cardinality({o \in OpIds : ops[o].kind \in {"proxy", "direct"}
                                                /\ ops[o].pc = "select"})
ConnectsInFlight == Cardinality({o \in OpIds : ops[o].kind \in {"proxy", "direct"}
                                                /\ ops[o].pc \notin {"unused", "done"}})

GetWaiterInfo ==
    /\ wi.n < MaxInfoCalls /\ CanSend
    /\ wi' = [n |-> wi.n + 1, connWaiters |-> WaiterCount(connWaiters),
              runWaiters |-> WaiterCount(runWaiters),
              atSelect |-> ConnectsAtSelect, inFlight |-> ConnectsInFlight]
    /\ UNCHANGED <<parVars, srvVars, netVars, targets, conn, PTR, serReq, panicked, cl, written, lastHandled,
                   connWaiters, runWaiters, ops, tw, twDone>>

InitWait ==
    /\ targets = HostInfoTargets(HostInfoTargets([k \in {} |-> NoHost], LoadedA), LoadedB)
    /\ PTR = HostInfoPTR(HostInfoPTR([k \in {} |-> ""], LoadedA), LoadedB)
    /\ conn = [k \in {} |-> NoConn]
    /\ serReq = NoReq
    /\ panicked = FALSE
    /\ InitCallers /\ InitWaiters /\ InitNet /\ InitPar /\ InitSrv

\* proxied connects and runs, with TimeoutWaiters callers
NextWait ==
    \/ \E o \in OpIds : StartProxyConnect(o)
    \/ \E o \in OpIds : ProxyRegister(o)
    \/ \E o \in OpIds : ProxyWorkerConfig(o)
    \/ \E o \in OpIds : ProxyWorkerDialed(o)
    \/ \E o \in OpIds : ProxyWorkerEstablished(o)
    \/ \E o \in OpIds : ProxyWorkerNewClient(o)
    \/ \E o \in OpIds : ProxyWorkerFailed(o)
    \/ \E o \in OpIds : StartRunCmd(o)
    \/ \E o \in OpIds : RunRegister(o)
    \/ \E o \in OpIds : RunSpawn(o)
    \/ \E o \in OpIds : RunNewSessionBlocks(o)
    \/ \E o \in OpIds : RunWorkerSession(o)
    \/ \E o \in OpIds : RunWorkerStarted(o)
    \/ \E o \in OpIds : RunWorkerWaited(o)
    \/ \E o \in OpIds : RunWorkerFailed(o)
    \/ \E o \in OpIds : OpSelectResult(o)
    \/ \E o \in OpIds : OpSelectTimeout(o)
    \/ \E o \in OpIds : OpDelete(o)
    \/ \E o \in OpIds : StragglerDrained(o)
    \/ \E o \in OpIds : TimerFire(o)
    \/ \E o \in OpIds : DrainTimeout(o)
    \/ \E t \in TwIds : TimeoutWaiters(t)
    \/ SerTimeoutConn
    \/ SerTimeoutRun
    \/ SerTimeoutReply

SpecWait == InitWait /\ [][NextWait]_vars

\* C4: every TimeoutWaiters call gets its done reply: the serializer is never blocked for
\* ever in the timeoutWaiters case, sending false to a registered waiter whose timeoutChan
\* is full and has no receiver left (its operation is past its select, or blocked before
\* it, and no drain goroutine is waiting on the channel).
C4_TimeoutWaitersReplies ==
    LET ws == IF serReq.connLeft # {} THEN connWaiters ELSE runWaiters
        left == IF serReq.connLeft # {} THEN serReq.connLeft ELSE serReq.runLeft
        NoReceiver(o) == /\ ops[o].tchan # <<>>
                         /\ ops[o].pc \in {"deferred", "done", "blocked"}
                         /\ ops[o].drain # "waiting"
    IN  ~ ( /\ serReq.type = "timeoutWaiters"
            /\ left # {}
            /\ \A k \in left : NoReceiver(ws[k].op) )

\* C8: a proxyConnect (a runCmd) that has registered its waiter and has not yet returned
\* has its own entry in connWaiters (runWaiters): the entry under its hostname carries its
\* timeoutChan, also when another operation for the same hostname overlaps with it.
C8_OwnWaiterEntry ==
    \A o \in OpIds :
        LET k == LookupPTR(PTR, ops[o].host)
        IN  /\ (ops[o].kind = "proxy" /\ ops[o].pc \in {"select", "deferred"})
                  => (k \in DOMAIN connWaiters /\ connWaiters[k].op = o)
            /\ (ops[o].kind = "run" /\ ops[o].pc \in {"registered", "select", "deferred", "blocked"})
                  => (k \in DOMAIN runWaiters /\ runWaiters[k].op = o)

\* C10: every ProxyRequest and RunRequest produces a reply: an operation that has stopped,
\* by returning or by blocking for ever, has sent a response on the request's channel.
C10_AlwaysReplies ==
    \A o \in OpIds :
        (ops[o].kind \in {"proxy", "run"} /\ ops[o].pc \in {"done", "blocked"})
            => ops[o].outcome # "none"

(***************************************************************************)
(* SpecRace: the operations, their timers and one TimeoutWaiters call (the *)
(* handler of the interrupt signal, signals.go:42).                        *)
(***************************************************************************)
RaceOps == 1 .. MaxRaces
\* the TimeoutWaiters call of the signal handler
Aborter == 1

NextRace ==
    \/ \E o \in RaceOps : StartProxyConnect(o)
    \/ \E o \in RaceOps : ProxyRegister(o)
    \/ \E o \in RaceOps : ProxyWorkerConfig(o)
    \/ \E o \in RaceOps : ProxyWorkerDialed(o)
    \/ \E o \in RaceOps : ProxyWorkerEstablished(o)
    \/ \E o \in RaceOps : ProxyWorkerNewClient(o)
    \/ \E o \in RaceOps : ProxyWorkerFailed(o)
    \/ \E o \in RaceOps : StartRunCmd(o)
    \/ \E o \in RaceOps : RunRegister(o)
    \/ \E o \in RaceOps : RunSpawn(o)
    \/ \E o \in RaceOps : RunNewSessionBlocks(o)
    \/ \E o \in RaceOps : RunWorkerSession(o)
    \/ \E o \in RaceOps : RunWorkerStarted(o)
    \/ \E o \in RaceOps : RunWorkerWaited(o)
    \/ \E o \in RaceOps : RunWorkerFailed(o)
    \/ \E o \in RaceOps : OpSelectResult(o)
    \/ \E o \in RaceOps : OpSelectTimeout(o)
    \/ \E o \in RaceOps : OpDelete(o)
    \/ \E o \in RaceOps : StragglerDrained(o)
    \/ \E o \in RaceOps : TimerFire(o)
    \/ \E o \in RaceOps : DrainTimeout(o)
    \/ TimeoutWaiters(Aborter)
    \/ SerTimeoutConn
    \/ SerTimeoutRun
    \/ SerTimeoutReply

SpecRace == InitWait /\ [][NextRace]_vars

\* C18: a timeoutChan receives true only from the timer of its own operation and false
\* only from the serializer handling a timeoutWaiters request for a waiter entry that holds
\* the channel; an operation replies at its select only, with "timed out" exactly when it
\* took true from its timeoutChan, with "aborted" exactly when it took false, and with
\* the worker's result when it took that.
C18_TimeoutChanProtocol ==
    [][\A o \in OpIds :
          /\ (ops'[o].tchan # ops[o].tchan /\ ops'[o].tchan = <<TRUE>>)
                => ops[o].timer = "sleeping" /\ ops'[o].timer = "done"
          /\ (ops'[o].tchan # ops[o].tchan /\ ops'[o].tchan = <<FALSE>>)
                => /\ serReq.type = "timeoutWaiters"
                   /\ \/ \E k \in serReq.connLeft : connWaiters[k].op = o
                      \/ \E k \in serReq.runLeft : runWaiters[k].op = o
          /\ (ops'[o].outcome # ops[o].outcome)
                => /\ ops[o].pc = "select" /\ ops[o].outcome = "none"
                   /\ \/ /\ ops[o].tchan = <<TRUE>> /\ ops'[o].tchan = <<>>
                         /\ ops'[o].outcome = "timed out"
                      \/ /\ ops[o].tchan = <<FALSE>> /\ ops'[o].tchan = <<>>
                         /\ ops'[o].outcome = "aborted"
                      \/ /\ ops[o].worker = "sending" /\ ops'[o].worker = "done"
                         /\ ops'[o].tchan = ops[o].tchan
                         /\ ops'[o].outcome = ops[o].res
                         /\ ops'[o].outcome \notin {"timed out", "aborted", "none"}]_vars

\* C18 witness: an operation took the false of TimeoutWaiters at its select and replied
\* "aborted"; its own timer fired afterwards and left true in the channel.
C18_Witness ==
    \E o \in RaceOps :
        /\ ops[o].outcome = "aborted" /\ tw[Aborter] = "done"
        /\ ops[o].timer = "done" /\ ops[o].tchan = <<TRUE>>

\* direct dials and proxied connects, with TimeoutWaiters callers
NextDial ==
    \/ \E o \in OpIds : StartProxyConnect(o)
    \/ \E o \in OpIds : ProxyRegister(o)
    \/ \E o \in OpIds : ProxyWorkerConfig(o)
    \/ \E o \in OpIds : ProxyWorkerDialed(o)
    \/ \E o \in OpIds : ProxyWorkerEstablished(o)
    \/ \E o \in OpIds : ProxyWorkerNewClient(o)
    \/ \E o \in OpIds : ProxyWorkerFailed(o)
    \/ \E o \in OpIds : StartDirectDial(o)
    \/ \E o \in OpIds : DirectWorkerDone(o)
    \/ \E o \in OpIds : DirectSelectClient(o)
    \/ \E o \in OpIds : DirectSetConnInfo(o)
    \/ \E o \in OpIds : DirectSelectErr(o)
    \/ \E o \in OpIds : DirectSelectTimeout(o)
    \/ \E o \in OpIds : OpSelectResult(o)
    \/ \E o \in OpIds : OpSelectTimeout(o)
    \/ \E o \in OpIds : OpDelete(o)
    \/ \E o \in OpIds : StragglerDrained(o)
    \/ \E o \in OpIds : TimerFire(o)
    \/ \E o \in OpIds : DrainTimeout(o)
    \/ \E t \in TwIds : TimeoutWaiters(t)
    \/ SerTimeoutConn
    \/ SerTimeoutReply

SpecDial == InitWait /\ [][NextDial]_vars

\* C3: after a TimeoutWaiters call has returned, every connect that was outstanding (blocked
\* in its select) when the call was made and that is still blocked there has been sent the
\* abort: false is on its timeoutChan, so it returns without waiting for its own timer.
C3_AbortReachesOutstanding ==
    \A o \in twDone : ops[o].pc = "select" => ops[o].tchan = <<FALSE>>

\* direct dials and proxied connects, with a GetWaiterInfo caller
NextInfo ==
    \/ \E o \in OpIds : StartProxyConnect(o)
    \/ \E o \in OpIds : ProxyRegister(o)
    \/ \E o \in OpIds : ProxyWorkerConfig(o)
    \/ \E o \in OpIds : ProxyWorkerDialed(o)
    \/ \E o \in OpIds : ProxyWorkerEstablished(o)
    \/ \E o \in OpIds : ProxyWorkerNewClient(o)
    \/ \E o \in OpIds : ProxyWorkerFailed(o)
    \/ \E o \in OpIds : StartDirectDial(o)
    \/ \E o \in OpIds : DirectWorkerDone(o)
    \/ \E o \in OpIds : DirectSelectClient(o)
    \/ \E o \in OpIds : DirectSetConnInfo(o)
    \/ \E o \in OpIds : DirectSelectErr(o)
    \/ \E o \in OpIds : DirectSelectTimeout(o)
    \/ \E o \in OpIds : OpSelectResult(o)
    \/ \E o \in OpIds : OpSelectTimeout(o)
    \/ \E o \in OpIds : OpDelete(o)
    \/ \E o \in OpIds : StragglerDrained(o)
    \/ \E o \in OpIds : TimerFire(o)
    \/ \E o \in OpIds : DrainTimeout(o)
    \/ GetWaiterInfo

SpecInfo == InitWait /\ [][NextInfo]_vars

\* C9: the connWaiters count of a GetWaiterInfo reply is the number of connects in flight,
\* direct dials and proxied connects alike: it is at least the number of connects blocked
\* in their select and at most the number of connects started and not yet returned.
C9_ConnWaitersCount ==
    wi.n > 0 => (wi.atSelect <= wi.connWaiters /\ wi.connWaiters <= wi.inFlight)

(***************************************************************************)
(* Connections: the connect command (connectEverywhere, resolveProxies,    *)
(* resolve), the remoteHost loops it starts, and disconnectEverywhere.     *)
(*                                                                         *)
(* proxyConnect is one step here: the loop that receives the proxyRequest  *)
(* dials through its own client and the response is a client or an error.  *)
(* No waiter is registered at the steps of this specification, so the      *)
(* TimeoutWaiters call that opens disconnectEverywhere returns at once.     *)
(* ConnExists(link) and GetConnInfo(proxyhost), one after the other in     *)
(* resolve, are one step.                                                  *)
(***************************************************************************)
\* config.go:23,67: the number of connections resolve opens to a directly dialed host
BastionConns == 2

\* the targets of the connect commands: "p1" is dialed directly, "t" is reached through
\* the proxies p1, p2 and p3 (HostInfo.chain)
NetTargets == {"p1", "t"}
ChainOf(t) == IF t = "p1" THEN <<"p1">> ELSE <<"p1", "p2", "p3", "t">>

\* the resolve calls of a connect command for the target t: resolveProxies resolves the
\* chain without its last element as proxies, then connectEverywhere resolves the chain
CallsFor(t) ==
    LET c == ChainOf(t)
    IN  IF Len(c) = 1
        THEN << [chain |-> c, isProxy |-> FALSE] >>
        ELSE << [chain |-> SubSeq(c, 1, Len(c) - 1), isProxy |-> TRUE],
                [chain |-> c, isProxy |-> FALSE] >>

\* os.Exit has not been called (summary.go:296-299 ErrExit)
ProgramRuns == rs.pc # "exit"

Link == rs.call.chain[rs.idx]
ProxyHost == rs.call.chain[rs.idx - 1]

\* the remoteHost goroutines that are in their loop, listening on the channel ch
Listening(ch) == {L \in 1 .. Len(loops) : loops[L].running /\ loops[L].chan = ch}

\* a resolve call returned: the connect command goes on with its next call, or is over
Finish(r) ==
    [r EXCEPT !.pc = IF r.todo = <<>> THEN "idle" ELSE "next", !.call = NoCall, !.idx = 0,
              !.ci = NoConn, !.via = 0, !.chan = 0, !.dials = 0]

\* resolve goes on with the next link of its chain, or returns nil
Advance(r) ==
    IF r.idx = Len(r.call.chain)
    THEN Finish(r)
    ELSE [r EXCEPT !.pc = "hop", !.idx = @ + 1, !.ci = NoConn, !.via = 0, !.chan = 0,
                   !.dials = 0]

unchangedByNet == <<targets, PTR, serReq, cl, written, lastHandled, waitVars, parVars, srvVars>>

\* commands.go:443-465 connect: connectEverywhere for a target
ConnectStart ==
    \E t \in NetTargets :
        /\ rs.pc = "idle" /\ rs.n < MaxConnects
        /\ rs' = [rs EXCEPT !.n = @ + 1, !.pc = "next", !.todo = CallsFor(t)]
        /\ UNCHANGED <<conn, panicked, loops, de, torn, unchangedByNet>>

\* resolve.go:178 resolve(proxies, e, true, ...) / unnamed/part_000:28-42: a target that
\* is connected already is skipped, else resolve(hi.chain, e, false, timeout)
ResolveCall ==
    /\ rs.pc = "next" /\ CanSend
    /\ LET c == Head(rs.todo)
           r == [rs EXCEPT !.todo = Tail(@)]
       IN  IF ~c.isProxy /\ c.chain[Len(c.chain)] \in DOMAIN conn
           THEN rs' = Finish(r)
           ELSE rs' = [r EXCEPT !.pc = "hop", !.call = c, !.idx = 1]
    /\ UNCHANGED <<conn, panicked, loops, de, torn, unchangedByNet>>

\* resolve.go:39-41, 67-70: ConnExists(link): continue
ResolveExists ==
    /\ rs.pc = "hop" /\ CanSend
    /\ Link \in DOMAIN conn
    /\ rs' = Advance(rs)
    /\ UNCHANGED <<conn, panicked, loops, de, torn, unchangedByNet>>

\* resolve.go:71-95: the direct connect: one goroutine per bastion connection, all of
\* them handing the same reqChan to their remoteHost
ResolveDirectStart ==
    /\ rs.pc = "hop" /\ rs.idx = 1 /\ CanSend
    /\ Link \notin DOMAIN conn
    /\ rs' = [rs EXCEPT !.pc = "dialing", !.dials = BastionConns, !.chan = Len(loops) + 1]
    /\ UNCHANGED <<conn, panicked, loops, de, torn, unchangedByNet>>

\* resolve.go:97-106: case sshClient := <-dialChan: go remoteHost, SetConnInfo
ResolveDirectConnected ==
    /\ rs.pc = "dialing" /\ rs.dials > 0 /\ CanSend
    /\ Len(loops) < MaxLoops
    /\ loops' = Append(loops, [hostName |-> LookupPTR(PTR, Link), chan |-> rs.chan,
                               running |-> TRUE, isProxy |-> rs.call.isProxy, via |-> 0])
    /\ conn' = SetConnInfoConn(conn, [hostName |-> LookupPTR(PTR, Link),
                                      isProxy |-> rs.call.isProxy, isDirect |-> TRUE,
                                      proxyCount |-> 0, reqChan |-> rs.chan])
    /\ rs' = [rs EXCEPT !.dials = @ - 1]
    /\ UNCHANGED <<panicked, de, torn, unchangedByNet>>

\* resolve.go:107-120: case dcErr := <-errChan, case <-timeoutChan: return
ResolveDirectFailed ==
    /\ rs.pc = "dialing" /\ rs.dials > 0
    /\ rs' = [rs EXCEPT !.dials = @ - 1]
    /\ UNCHANGED <<conn, panicked, loops, de, torn, unchangedByNet>>

\* resolve.go:125: wg.Wait()
ResolveDirectWait ==
    /\ rs.pc = "dialing" /\ rs.dials = 0
    /\ rs' = Advance(rs)
    /\ UNCHANGED <<conn, panicked, loops, de, torn, unchangedByNet>>

\* resolve.go:39-49: the link is not connected: GetConnInfo(proxyhost), continue on error
ResolveProxyGet ==
    /\ rs.pc = "hop" /\ rs.idx > 1 /\ CanSend
    /\ Link \notin DOMAIN conn
    /\ IF ProxyHost \in DOMAIN conn
       THEN rs' = [rs EXCEPT !.pc = "ask", !.ci = conn[ProxyHost]]
       ELSE rs' = Advance(rs)
    /\ UNCHANGED <<conn, panicked, loops, de, torn, unchangedByNet>>

\* resolve.go:50-51: ci.reqChan <- req is received by a loop of the proxy, whose
\* proxyConnect answers with a client dialed through the loop's client
ResolveProxyConnected ==
    \E L \in Listening(rs.ci.reqChan) :
        /\ rs.pc = "ask"
        /\ rs' = [rs EXCEPT !.pc = "inc", !.via = L]
        /\ UNCHANGED <<conn, panicked, loops, de, torn, unchangedByNet>>

\* resolve.go:50-54: the response carries an error: return resp.err; resolveProxies
\* exits the program on it (resolve.go:179-181), connectEverywhere records it
ResolveProxyFailed ==
    /\ rs.pc = "ask"
    /\ Listening(rs.ci.reqChan) # {}
    /\ rs' = IF rs.call.isProxy THEN [rs EXCEPT !.pc = "exit"] ELSE Finish(rs)
    /\ UNCHANGED <<conn, panicked, loops, de, torn, unchangedByNet>>

\* resolve.go:55: IncProxyCount(proxyhost); the serializer dereferences s.conn[hostName]
ResolveInc ==
    /\ rs.pc = "inc" /\ CanSend
    /\ IF ProxyHost \in DOMAIN conn
       THEN conn' = IncProxyCountConn(conn, ProxyHost) /\ UNCHANGED panicked
       ELSE panicked' = TRUE /\ UNCHANGED conn
    /\ rs' = [rs EXCEPT !.pc = "register"]
    /\ UNCHANGED <<loops, de, torn, unchangedByNet>>

\* resolve.go:56-63: go remoteHost(link, 0, newreq, ...), SetConnInfo
ResolveRegister ==
    /\ rs.pc = "register" /\ CanSend
    /\ Len(loops) < MaxLoops
    /\ loops' = Append(loops, [hostName |-> LookupPTR(PTR, Link), chan |-> Len(loops) + 1,
                               running |-> TRUE, isProxy |-> rs.call.isProxy,
                               via |-> rs.via])
    /\ conn' = SetConnInfoConn(conn, [hostName |-> LookupPTR(PTR, Link),
                                      isProxy |-> rs.call.isProxy, isDirect |-> FALSE,
                                      proxyCount |-> 0, reqChan |-> Len(loops) + 1])
    /\ rs' = Advance(rs)
    /\ UNCHANGED <<panicked, de, torn, unchangedByNet>>

(***************************************************************************)
(* disconnectEverywhere(e, true) (unnamed/part_000:72-132) and the         *)
(* cleanupRequest case of remoteHost (remotehost.go:106-124)               *)
(***************************************************************************)
\* unnamed/part_000:76-77: TimeoutWaiters, then ck = GetConnKeys()
DiscStart ==
    /\ ProgramRuns /\ de.pc = "idle" /\ de.n < MaxTeardowns /\ CanSend
    /\ de' = [de EXCEPT !.n = @ + 1, !.pc = "loop", !.phase = 1, !.ck = DOMAIN conn]
    /\ UNCHANGED <<conn, panicked, loops, rs, torn, unchangedByNet>>

\* the key k is passed over in the loop of the phase ph: GetConnInfo fails, or the
\* ConnInfo is not of the kind the phase tears down (part_000:79-86, 98-109, 117-125)
Skips(ph, k) ==
    \/ k \notin DOMAIN conn
    \/ ph = 1 /\ conn[k].isProxy
    \/ ph = 2 /\ (~conn[k].isProxy \/ conn[k].isDirect)
    \/ ph = 3 /\ (~conn[k].isProxy \/ ~conn[k].isDirect)

\* the keys come in the order of a range over the map s.conn (state.go:626-632)
DiscSkip ==
    \E k \in de.ck :
        /\ ProgramRuns /\ de.pc = "loop" /\ CanSend
        /\ Skips(de.phase, k)
        /\ de' = [de EXCEPT !.ck = @ \ {k}]
        /\ UNCHANGED <<conn, panicked, loops, rs, torn, unchangedByNet>>

\* GetConnInfo(ck[i]) returned a ConnInfo the phase tears down: one cleanupRequest, or
\* BastionConns of them for a direct proxy
DiscTake ==
    \E k \in de.ck :
        /\ ProgramRuns /\ de.pc = "loop" /\ CanSend
        /\ ~Skips(de.phase, k)
        /\ de' = [de EXCEPT !.ck = @ \ {k}, !.pc = "cleanup", !.key = k, !.ci = conn[k],
                            !.left = IF de.phase = 3 THEN BastionConns ELSE 1]
        /\ UNCHANGED <<conn, panicked, loops, rs, torn, unchangedByNet>>

\* the ConnInfos other than k whose loop holds a client dialed through the client of L
Dependents(L, k) ==
    {h \in DOMAIN conn \ {k} : \E M \in Listening(conn[h].reqChan) : loops[M].via = L}

\* ci.reqChan <- cleanupRequest; <-respChan: a loop listening on the channel closes its
\* session and its client, replies and returns (remotehost.go:106-124)
DiscCleanup ==
    \E L \in Listening(de.ci.reqChan) :
        /\ ProgramRuns /\ de.pc = "cleanup" /\ de.left > 0
        /\ loops' = [loops EXCEPT ![L].running = FALSE]
        /\ de' = [de EXCEPT !.left = @ - 1]
        /\ torn' = [hostName |-> de.key, isProxy |-> de.ci.isProxy,
                    isDirect |-> de.ci.isDirect, phase |-> de.phase,
                    nonProxies |-> {h \in DOMAIN conn \ {de.key} : ~conn[h].isProxy},
                    indirect |-> {h \in DOMAIN conn \ {de.key} :
                                      conn[h].isProxy /\ ~conn[h].isDirect},
                    dependents |-> Dependents(L, de.key)]
        /\ UNCHANGED <<conn, panicked, rs, unchangedByNet>>

\* e.s.DeleteConnInfo(ck[i])
DiscDelete ==
    /\ ProgramRuns /\ de.pc = "cleanup" /\ de.left = 0 /\ CanSend
    /\ conn' = DeleteConnInfoConn(conn, de.key)
    /\ de' = [de EXCEPT !.pc = "loop", !.key = "", !.ci = NoConn]
    /\ UNCHANGED <<panicked, loops, rs, torn, unchangedByNet>>

\* unnamed/part_000:96, 115: ck = e.s.GetConnKeys() for the next phase
DiscNextPhase ==
    /\ ProgramRuns /\ de.pc = "loop" /\ de.ck = {} /\ de.phase < 3 /\ CanSend
    /\ de' = [de EXCEPT !.phase = @ + 1, !.ck = DOMAIN conn]
    /\ UNCHANGED <<conn, panicked, loops, rs, torn, unchangedByNet>>

\* unnamed/part_000:132: disconnectEverywhere returns
DiscDone ==
    /\ ProgramRuns /\ de.pc = "loop" /\ de.ck = {} /\ de.phase = 3
    /\ de' = [de EXCEPT !.pc = "idle", !.phase = 0]
    /\ UNCHANGED <<conn, panicked, loops, rs, torn, unchangedByNet>>

\* no target is loaded with an ip address of its own: the hosts are dialed by name
InitNetSpec ==
    /\ targets = [k \in {} |-> NoHost]
    /\ PTR = [k \in {} |-> ""]
    /\ conn = [k \in {} |-> NoConn]
    /\ serReq = NoReq
    /\ panicked = FALSE
    /\ InitCallers /\ InitWaiters /\ InitNet /\ InitPar /\ InitSrv

NextNet ==
    \/ ConnectStart
    \/ ResolveCall
    \/ ResolveExists
    \/ ResolveDirectStart
    \/ ResolveDirectConnected
    \/ ResolveDirectFailed
    \/ ResolveDirectWait
    \/ ResolveProxyGet
    \/ ResolveProxyConnected
    \/ ResolveProxyFailed
    \/ ResolveInc
    \/ ResolveRegister
    \/ DiscStart
    \/ DiscSkip
    \/ DiscTake
    \/ DiscCleanup
    \/ DiscDelete
    \/ DiscNextPhase
    \/ DiscDone

SpecNet == InitNetSpec /\ [][NextNet]_vars

\* C5: when disconnectEverywhere closes the client of a proxy, no non-proxy ConnInfo is
\* registered, and when it closes the client of a direct proxy, no indirect proxy is
\* registered, also with a connect command running beside the teardown.
C5_CleanupOrder ==
    /\ torn.isProxy => torn.nonProxies = {}
    /\ (torn.isProxy /\ torn.isDirect) => torn.indirect = {}

\* C6: when disconnectEverywhere closes the client of a connection, no connection that is
\* still registered holds a client that was dialed through the closed one.
C6_ReverseDependencyOrder ==
    torn.hostName # "" => torn.dependents = {}

\* C7: with no connect command and no teardown in progress, a ConnInfo is registered for
\* a hostname exactly when a remoteHost loop for it is running with its client open:
\* every ConnInfo's reqChan has a running loop, and every running loop is reached by the
\* reqChan of the ConnInfo of its hostname.
C7_ConnInfoIffLoop ==
    (ProgramRuns /\ ~panicked /\ rs.pc = "idle" /\ de.pc = "idle")
        => /\ \A h \in DOMAIN conn : Listening(conn[h].reqChan) # {}
           /\ \A L \in 1 .. Len(loops) :
                  loops[L].running
                      => /\ loops[L].hostName \in DOMAIN conn
                         /\ conn[loops[L].hostName].reqChan = loops[L].chan

\* C23: disconnectEverywhere(e, true) always terminates: every cleanupRequest it sends is
\* received by a running loop and answered, also for a direct proxy on which fewer than
\* BastionConns dials succeeded; it is never left sending a cleanupRequest on an inbox
\* that no loop listens on and that no dial in progress will start a loop for.
C23_TeardownTerminates ==
    ~ ( /\ de.pc = "cleanup" /\ de.left > 0
        /\ Listening(de.ci.reqChan) = {}
        /\ ~ (rs.pc = "dialing" /\ rs.chan = de.ci.reqChan /\ rs.dials > 0) )

(***************************************************************************)
(* connectEverywhere (unnamed/part_000:15-58): resolveProxies, then one    *)
(* worker goroutine per target that is not connected, the workers running  *)
(* resolve in parallel.  The steps of resolve are those of SpecNet, taken  *)
(* by the resolver r.  Each resolver keeps, beside its position, what its  *)
(* call did: the links it found connected (skipped), the links it got a    *)
(* client for (made), and whether a dial failed or a proxy was missing     *)
(* (failed).                                                               *)
(***************************************************************************)
\* the chains of the two targets are a common proxy prefix followed by the target
ParPrefixes == { <<"bastion">>, <<"edge", "bastion">> }

\* the resolver's number, for the names of the channels it makes
ResolverNo(r) == IF r = "proxies" THEN 1 ELSE IF r = "b" THEN 2 ELSE 3

\* case setConnectionStatus (state.go:553-559)
SetConnectionStatusTargets(tg, h, ok, err) ==
    IF h \in DOMAIN tg
    THEN [tg EXCEPT ![h].connectedOK = ok, ![h].lastError = err]
    ELSE tg

PLink(r) == rv[r].chain[rv[r].idx]
PProxyHost(r) == rv[r].chain[rv[r].idx - 1]

\* resolve returns, with an error or nil
PReturn(q, e) ==
    [q EXCEPT !.pc = "returned", !.err = e, !.idx = 0, !.ci = NoConn, !.via = 0,
              !.chan = 0, !.dials = 0]

\* resolve goes on with the next link of its chain, or returns nil
PAdvance(q) ==
    IF q.idx = Len(q.chain)
    THEN PReturn(q, FALSE)
    ELSE [q EXCEPT !.pc = "hop", !.idx = @ + 1, !.ci = NoConn, !.via = 0, !.chan = 0,
                   !.dials = 0]

\* os.Exit has not been called (ErrExit in connectEverywhere and resolveProxies)
PRuns == ce.pc # "exit"

\* the chain of the target h without its last element (resolve.go:173-174; the elements
\* hold no space, so Split undoes Join)
PrefixOf(h) == SubSeq(targets[h].chain, 1, Len(targets[h].chain) - 1)

unchangedByPar == <<PTR, serReq, cl, written, lastHandled, waitVars, rs, de, torn, srvVars>>

\* commands.go:462, unnamed/part_000:18, resolve.go:160-162: connectEverywhere calls
\* resolveProxies, which makes its chainMap and takes the host keys
ConnectEverywhere ==
    /\ ce.pc \in {"idle", "done"} /\ ce.n < MaxRuns /\ CanSend
    /\ ce' = [ce EXCEPT !.n = @ + 1, !.pc = "proxies", !.hk = DOMAIN targets,
                        !.chainMap = {}]
    /\ UNCHANGED <<targets, conn, panicked, loops, rv, unchangedByPar>>

\* resolve.go:163-177: a chain of one element, or a prefix met before: next host
ProxiesSkip ==
    \E h \in ce.hk :
        /\ ce.pc = "proxies" /\ rv["proxies"].pc = "idle" /\ CanSend
        /\ Len(targets[h].chain) = 1 \/ PrefixOf(h) \in ce.chainMap
        /\ ce' = [ce EXCEPT !.hk = @ \ {h}]
        /\ UNCHANGED <<targets, conn, panicked, loops, rv, unchangedByPar>>

\* a resolveProxies that would resolve a prefix as it resolves the chain of a target
ProxiesResolveAsTarget ==
    \E h \in ce.hk :
        /\ ce.pc = "proxies" /\ rv["proxies"].pc = "idle" /\ CanSend
        /\ Len(targets[h].chain) > 1 /\ PrefixOf(h) \notin ce.chainMap
        /\ ce' = [ce EXCEPT !.hk = @ \ {h}, !.chainMap = @ \cup {PrefixOf(h)}]
        /\ rv' = [rv EXCEPT !["proxies"] = [NoResolve EXCEPT !.pc = "hop", !.idx = 1,
                                            !.chain = PrefixOf(h), !.isProxy = FALSE]]
        /\ UNCHANGED <<targets, conn, panicked, loops, unchangedByPar>>

\* resolve.go:177-178: a new prefix: resolve(prefix, e, true, timeout)
ProxiesResolve ==
    \E h \in ce.hk :
        /\ ce.pc = "proxies" /\ rv["proxies"].pc = "idle" /\ CanSend
        /\ Len(targets[h].chain) > 1 /\ PrefixOf(h) \notin ce.chainMap
        /\ ce' = [ce EXCEPT !.hk = @ \ {h}, !.chainMap = @ \cup {PrefixOf(h)}]
        /\ rv' = [rv EXCEPT !["proxies"] = [NoResolve EXCEPT !.pc = "hop", !.idx = 1,
                                            !.chain = PrefixOf(h), !.isProxy = TRUE]]
        /\ UNCHANGED <<targets, conn, panicked, loops, unchangedByPar>>

\* resolve.go:179-181: the resolve of a prefix returned: ErrExit on an error
ProxiesReturned ==
    /\ PRuns /\ rv["proxies"].pc = "returned"
    /\ IF rv["proxies"].err
       THEN ce' = [ce EXCEPT !.pc = "exit"] /\ UNCHANGED rv
       ELSE rv' = [rv EXCEPT !["proxies"].pc = "idle"] /\ UNCHANGED ce
    /\ UNCHANGED <<targets, conn, panicked, loops, unchangedByPar>>

\* resolve.go:186, unnamed/part_000:27: resolveProxies returned nil: hk = GetHostKeys()
ProxiesDone ==
    /\ ce.pc = "proxies" /\ ce.hk = {} /\ rv["proxies"].pc = "idle" /\ CanSend
    /\ ce' = [ce EXCEPT !.pc = "spawn", !.hk = DOMAIN targets]
    /\ UNCHANGED <<targets, conn, panicked, loops, rv, unchangedByPar>>

\* unnamed/part_000:30-33: the target is connected already
SpawnSkip ==
    \E h \in ce.hk :
        /\ ce.pc = "spawn" /\ CanSend
        /\ h \in DOMAIN conn
        /\ ce' = [ce EXCEPT !.hk = @ \ {h}]
        /\ UNCHANGED <<targets, conn, panicked, loops, rv, unchangedByPar>>

\* unnamed/part_000:21-25: the capacity of the limiter channel
LimiterCap == IF ce.agent THEN AgentConcurrency ELSE ce.concurrency

\* a spawn that does not wait for a slot of the limiter
SpawnWorkerUnlimited ==
    \E h \in ce.hk :
        /\ ce.pc = "spawn" /\ CanSend
        /\ h \notin DOMAIN conn
        /\ ce' = [ce EXCEPT !.hk = @ \ {h}, !.limiter = @ + 1]
        /\ rv' = [rv EXCEPT ![h] = [NoResolve EXCEPT !.pc = "start"]]
        /\ UNCHANGED <<targets, conn, panicked, loops, unchangedByPar>>

\* unnamed/part_000:34-36: wg.Add(1), limiter <- struct{}{}, go func(me string) for the
\* target
SpawnWorker ==
    \E h \in ce.hk :
        /\ ce.pc = "spawn" /\ CanSend
        /\ h \notin DOMAIN conn
        /\ ce.limiter < LimiterCap
        /\ ce' = [ce EXCEPT !.hk = @ \ {h}, !.limiter = @ + 1]
        /\ rv' = [rv EXCEPT ![h] = [NoResolve EXCEPT !.pc = "start"]]
        /\ UNCHANGED <<targets, conn, panicked, loops, unchangedByPar>>

\* unnamed/part_000:38-44: GetHostInfo(me), resolve(hi.chain, e, false, timeout)
WorkerStart(r) ==
    /\ PRuns /\ rv[r].pc = "start" /\ CanSend
    /\ rv' = [rv EXCEPT ![r] = [NoResolve EXCEPT !.pc = "hop", !.idx = 1,
                                !.chain = targets[r].chain]]
    /\ UNCHANGED <<targets, conn, panicked, loops, ce, unchangedByPar>>

\* unnamed/part_000:37, 45-50: SetConnectionStatus with connectedOK: err == nil, and the
\* deferred wg.Done() and <-limiter
WorkerStatus(r) ==
    /\ PRuns /\ r \in ParTargets /\ rv[r].pc = "returned" /\ CanSend
    /\ targets' = SetConnectionStatusTargets(targets, r, ~rv[r].err,
                                             IF rv[r].err THEN "error" ELSE "")
    /\ rv' = [rv EXCEPT ![r].pc = "done"]
    /\ ce' = [ce EXCEPT !.limiter = @ - 1]
    /\ UNCHANGED <<conn, panicked, loops, unchangedByPar>>

\* unnamed/part_000:56-57: wg.Wait(), return
ConnectDone ==
    /\ ce.pc = "spawn" /\ ce.hk = {}
    /\ \A r \in ParTargets : rv[r].pc \in {"idle", "done"}
    /\ ce' = [ce EXCEPT !.pc = "done"]
    /\ UNCHANGED <<targets, conn, panicked, loops, rv, unchangedByPar>>

\* a resolve that would start a remoteHost loop for a link that is connected already
PResolveExistsAgain(r) ==
    /\ PRuns /\ rv[r].pc = "hop" /\ CanSend
    /\ PLink(r) \in DOMAIN conn
    /\ loops' = Append(loops, [hostName |-> PLink(r), chan |-> conn[PLink(r)].reqChan,
                               running |-> TRUE, isProxy |-> rv[r].isProxy, via |-> 0])
    /\ rv' = [rv EXCEPT ![r] = PAdvance([rv[r] EXCEPT !.skipped = @ \cup {PLink(r)}])]
    /\ UNCHANGED <<targets, conn, panicked, ce, unchangedByPar>>

\* resolve.go:39-41, 67-70: ConnExists(link): continue
PResolveExists(r) ==
    /\ PRuns /\ rv[r].pc = "hop" /\ CanSend
    /\ PLink(r) \in DOMAIN conn
    /\ rv' = [rv EXCEPT ![r] = PAdvance([rv[r] EXCEPT !.skipped = @ \cup {PLink(r)}])]
    /\ UNCHANGED <<targets, conn, panicked, loops, ce, unchangedByPar>>

\* resolve.go:71-95: the direct connect: one goroutine per bastion connection
PResolveDirectStart(r) ==
    /\ PRuns /\ rv[r].pc = "hop" /\ rv[r].idx = 1 /\ CanSend
    /\ PLink(r) \notin DOMAIN conn
    /\ rv' = [rv EXCEPT ![r].pc = "dialing", ![r].dials = BastionConns,
                        ![r].chan = 10 * ResolverNo(r) + rv[r].idx]
    /\ UNCHANGED <<targets, conn, panicked, loops, ce, unchangedByPar>>

\* resolve.go:97-106: case sshClient := <-dialChan: go remoteHost, SetConnInfo
PResolveDirectConnected(r) ==
    /\ PRuns /\ rv[r].pc = "dialing" /\ rv[r].dials > 0 /\ CanSend
    /\ Len(loops) < MaxLoops
    /\ loops' = Append(loops, [hostName |-> LookupPTR(PTR, PLink(r)), chan |-> rv[r].chan,
                               running |-> TRUE, isProxy |-> rv[r].isProxy, via |-> 0])
    /\ conn' = SetConnInfoConn(conn, [hostName |-> LookupPTR(PTR, PLink(r)),
                                      isProxy |-> rv[r].isProxy, isDirect |-> TRUE,
                                      proxyCount |-> 0, reqChan |-> rv[r].chan])
    /\ rv' = [rv EXCEPT ![r].dials = @ - 1, ![r].made = @ \cup {PLink(r)}]
    /\ UNCHANGED <<targets, panicked, ce, unchangedByPar>>

\* resolve.go:107-120: case dcErr := <-errChan, case <-timeoutChan: return
PResolveDirectFailed(r) ==
    /\ PRuns /\ rv[r].pc = "dialing" /\ rv[r].dials > 0
    /\ rv' = [rv EXCEPT ![r].dials = @ - 1, ![r].failed = TRUE]
    /\ UNCHANGED <<targets, conn, panicked, loops, ce, unchangedByPar>>

\* resolve.go:125: wg.Wait()
PResolveDirectWait(r) ==
    /\ PRuns /\ rv[r].pc = "dialing" /\ rv[r].dials = 0
    /\ rv' = [rv EXCEPT ![r] = PAdvance(rv[r])]
    /\ UNCHANGED <<targets, conn, panicked, loops, ce, unchangedByPar>>

\* resolve.go:39-49: the link is not connected: GetConnInfo(proxyhost), continue on error
PResolveProxyGet(r) ==
    /\ PRuns /\ rv[r].pc = "hop" /\ rv[r].idx > 1 /\ CanSend
    /\ PLink(r) \notin DOMAIN conn
    /\ IF PProxyHost(r) \in DOMAIN conn
       THEN rv' = [rv EXCEPT ![r].pc = "ask", ![r].ci = conn[PProxyHost(r)]]
       ELSE rv' = [rv EXCEPT ![r] = PAdvance([rv[r] EXCEPT !.failed = TRUE])]
    /\ UNCHANGED <<targets, conn, panicked, loops, ce, unchangedByPar>>

\* resolve.go:50-51: ci.reqChan <- req is received by a loop of the proxy, whose
\* proxyConnect answers with a client dialed through the loop's client
PResolveProxyConnected(r) ==
    \E L \in Listening(rv[r].ci.reqChan) :
        /\ PRuns /\ rv[r].pc = "ask"
        /\ rv' = [rv EXCEPT ![r].pc = "inc", ![r].via = L, ![r].made = @ \cup {PLink(r)}]
        /\ UNCHANGED <<targets, conn, panicked, loops, ce, unchangedByPar>>

\* resolve.go:50-54: the response carries an error: return resp.err
PResolveProxyFailed(r) ==
    /\ PRuns /\ rv[r].pc = "ask"
    /\ Listening(rv[r].ci.reqChan) # {}
    /\ rv' = [rv EXCEPT ![r] = PReturn([rv[r] EXCEPT !.failed = TRUE], TRUE)]
    /\ UNCHANGED <<targets, conn, panicked, loops, ce, unchangedByPar>>

\* resolve.go:55: IncProxyCount(proxyhost)
PResolveInc(r) ==
    /\ PRuns /\ rv[r].pc = "inc" /\ CanSend
    /\ IF PProxyHost(r) \in DOMAIN conn
       THEN conn' = IncProxyCountConn(conn, PProxyHost(r)) /\ UNCHANGED panicked
       ELSE panicked' = TRUE /\ UNCHANGED conn
    /\ rv' = [rv EXCEPT ![r].pc = "register"]
    /\ UNCHANGED <<targets, loops, ce, unchangedByPar>>

\* resolve.go:56-63: go remoteHost(link, 0, newreq, ...), SetConnInfo
PResolveRegister(r) ==
    /\ PRuns /\ rv[r].pc = "register" /\ CanSend
    /\ Len(loops) < MaxLoops
    /\ loops' = Append(loops, [hostName |-> LookupPTR(PTR, PLink(r)),
                               chan |-> 10 * ResolverNo(r) + rv[r].idx,
                               running |-> TRUE, isProxy |-> rv[r].isProxy,
                               via |-> rv[r].via])
    /\ conn' = SetConnInfoConn(conn, [hostName |-> LookupPTR(PTR, PLink(r)),
                                      isProxy |-> rv[r].isProxy, isDirect |-> FALSE,
                                      proxyCount |-> 0,
                                      reqChan |-> 10 * ResolverNo(r) + rv[r].idx])
    /\ rv' = [rv EXCEPT ![r] = PAdvance(rv[r])]
    /\ UNCHANGED <<targets, panicked, ce, unchangedByPar>>

\* the two targets are loaded, their chains sharing the proxy prefix P
LoadedPar(t, P) ==
    [hostName |-> t, ipAddress |-> IF t = "b" THEN "ip1" ELSE "ip2", connectedOK |-> FALSE,
     lastError |-> "", chain |-> Append(P, t)]

\* the options -a and -c of the run: the defaults, one connection at a time, and one at
\* a time with ssh-agent authentication
ParOptions ==
    {[agent |-> FALSE, concurrency |-> Concurrency],
     [agent |-> FALSE, concurrency |-> 1],
     [agent |-> TRUE, concurrency |-> 1]}

InitParSpec ==
    /\ \E P \in ParPrefixes :
          /\ targets = HostInfoTargets(HostInfoTargets([k \in {} |-> NoHost],
                                                       LoadedPar("b", P)), LoadedPar("c", P))
          /\ PTR = HostInfoPTR(HostInfoPTR([k \in {} |-> ""], LoadedPar("b", P)),
                               LoadedPar("c", P))
    /\ conn = [k \in {} |-> NoConn]
    /\ serReq = NoReq
    /\ panicked = FALSE
    /\ InitCallers /\ InitWaiters /\ InitNet /\ InitSrv
    /\ \E o \in ParOptions :
          ce = [NoConnectEverywhere EXCEPT !.agent = o.agent, !.concurrency = o.concurrency]
    /\ rv = [r \in ParResolvers |-> NoResolve]

NextPar ==
    \/ ConnectEverywhere
    \/ ProxiesSkip
    \/ ProxiesResolve
    \/ ProxiesReturned
    \/ ProxiesDone
    \/ SpawnSkip
    \/ SpawnWorker
    \/ \E r \in ParTargets : WorkerStart(r)
    \/ \E r \in ParTargets : WorkerStatus(r)
    \/ ConnectDone
    \/ \E r \in ParResolvers : PResolveExists(r)
    \/ \E r \in ParResolvers : PResolveDirectStart(r)
    \/ \E r \in ParResolvers : PResolveDirectConnected(r)
    \/ \E r \in ParResolvers : PResolveDirectFailed(r)
    \/ \E r \in ParResolvers : PResolveDirectWait(r)
    \/ \E r \in ParResolvers : PResolveProxyGet(r)
    \/ \E r \in ParResolvers : PResolveProxyConnected(r)
    \/ \E r \in ParResolvers : PResolveProxyFailed(r)
    \/ \E r \in ParResolvers : PResolveInc(r)
    \/ \E r \in ParResolvers : PResolveRegister(r)

SpecPar == InitParSpec /\ [][NextPar]_vars

\* C12: when resolveProxies has returned for two targets whose chains share the proxy
\* prefix P, every dial having succeeded, the number of ssh clients dialed along P (each
\* held by a remoteHost loop) is |P| x BastionConns.
C12_ChainReuse ==
    LET P == PrefixOf("b")
        hops == {P[i] : i \in 1 .. Len(P)}
    IN  (/\ ce.n = 1 /\ ce.pc = "spawn"
         /\ PrefixOf("c") = P
         /\ ~rv["proxies"].failed /\ rv["proxies"].made = hops)
            => Cardinality({L \in 1 .. Len(loops) : loops[L].hostName \in hops})
                   = Len(P) * BastionConns

\* C13: for the targets b and c with the chains [bastion, b] and [bastion, c]: once
\* resolveProxies has returned with its dials succeeded there is exactly one ConnInfo
\* for the bastion, and once connectEverywhere has returned with every target connected
\* proxyCount(bastion) is the number of targets.
C13_FanIn ==
    PrefixOf("b") = <<"bastion">> =>
        /\ (ce.pc \in {"spawn", "done"} /\ ~rv["proxies"].failed)
              => {k \in DOMAIN conn : conn[k].hostName = "bastion"} = {"bastion"}
        /\ (ce.pc = "done" /\ ParTargets \subseteq DOMAIN conn)
              => /\ "bastion" \in DOMAIN conn
                 /\ conn["bastion"].proxyCount = Cardinality(ParTargets)

\* C13 witness: the first connectEverywhere has returned, both workers having resolved
\* their chain through the one bastion without a failure.
C13_Witness ==
    /\ PrefixOf("b") = <<"bastion">>
    /\ ce.n = 1 /\ ce.pc = "done"
    /\ \A r \in ParTargets : rv[r].pc = "done" /\ ~rv[r].failed /\ rv[r].made = {r}
                             /\ rv[r].skipped = {"bastion"}
    /\ ParTargets \subseteq DOMAIN conn
    /\ conn["bastion"].proxyCount = 2

\* C14: concurrent setup is deduplicated: whatever the interleaving of the resolve calls,
\* at most one client and one remoteHost loop exist per proxied hostname and at most
\* BastionConns per directly dialed hostname (the first hop of a chain).
C14_SetupDeduplicated ==
    \A h \in {loops[L].hostName : L \in 1 .. Len(loops)} :
        Cardinality({L \in 1 .. Len(loops) : loops[L].hostName = h})
            <= IF h = PrefixOf("b")[1] THEN BastionConns ELSE 1

\* C15: resolve is idempotent on established hops: the step resolve takes at a hop that
\* has a ConnInfo sends no proxyRequest, dials nothing and starts no loop, and leaves the
\* ConnInfo map (the hop's entry and every proxyCount) as it is; resolve goes on with the
\* next hop, so only the missing hops of a chain are connected.
C15_ResolveIdempotent ==
    [][\A r \in ParResolvers :
          (rv[r].pc = "hop" /\ PLink(r) \in DOMAIN conn /\ rv'[r] # rv[r])
              => /\ conn' = conn /\ loops' = loops
                 /\ rv'[r].made = rv[r].made
                 /\ rv'[r].skipped = rv[r].skipped \cup {PLink(r)}
                 /\ rv'[r] = PAdvance([rv[r] EXCEPT !.skipped = rv'[r].skipped])]_vars

\* C15 witness: resolveProxies of the second connectEverywhere has returned from resolve
\* of the prefix edge bastion having found both hops connected, and a worker's resolve has
\* connected only its target behind the prefix.
C15_Witness ==
    /\ ce.n = 2 /\ rv["proxies"].pc = "returned"
    /\ rv["proxies"].skipped = {"edge", "bastion"} /\ rv["proxies"].made = {}
    /\ \E r \in ParTargets : rv[r].pc = "done" /\ rv[r].skipped = {"edge", "bastion"}
                             /\ rv[r].made = {r}

\* C19: once connectEverywhere has processed a target (its worker has recorded the
\* connection status), connectedOK is true only if a ConnInfo for the target was
\* registered; if a hop of its chain failed, timed out or had no registered proxy,
\* connectedOK is false and lastError holds the error. The target stays in the inventory.
C19_ConnectedOnlyIfRegistered ==
    \A r \in ParTargets :
        rv[r].pc = "done" =>
            /\ r \in DOMAIN targets
            /\ targets[r].connectedOK => r \in DOMAIN conn
            /\ rv[r].failed => (~targets[r].connectedOK /\ targets[r].lastError # "")

(***************************************************************************)
(* SpecPTR: JSON.LoadBlob (json.go:52-71) loading an inventory whose       *)
(* servers carry any name and any ip_address string, beside client         *)
(* goroutines registering connections under names GetPTR normalized        *)
(* (State.SetConnInfo).                                                    *)
(***************************************************************************)
\* the entries an inventory may hold: ip_address is any string, the empty one and the
\* name of a host included (json.go:34-38)
Servers ==
    {[hostName |-> n, ipAddress |-> ip, connectedOK |-> FALSE] :
        n \in Names, ip \in Ids \cup {""}}

\* json.go:58-60: the next entry of the blob: HostExists(srv.Name)
LoadBlobEntry(c, srv) ==
    /\ MayCallHost(c) /\ CanSend
    /\ serReq' = [type |-> "hostExists", hostName |-> srv.hostName, from |-> c]
    /\ cl' = [cl EXCEPT ![c] = [pc |-> "ghi_exists", op |-> "LoadBlob", arg |-> srv,
                                nh |-> cl[c].nh + 1, nc |-> cl[c].nc, ret |-> NoReq]]
    /\ UNCHANGED <<parVars, srvVars, netVars, waitVars, targets, conn, PTR, panicked, written,
                   lastHandled>>

\* json.go:60: HostExists(srv.Name)
LoadBlobExists(c) == \E srv \in Servers : LoadBlobEntry(c, srv)

\* json.go:60-63: a duplicate entry is skipped
LoadBlobSkip(c) ==
    /\ cl[c].pc = "ghi_checked" /\ cl[c].op = "LoadBlob" /\ cl[c].ret.exists = TRUE
    /\ cl' = [cl EXCEPT ![c].pc = "idle"]
    /\ UNCHANGED <<parVars, srvVars, netVars, waitVars, targets, conn, PTR, serReq, panicked, written,
                   lastHandled>>

\* json.go:64-68: SetHostInfo of the entry
LoadBlobSet(c) ==
    /\ cl[c].pc = "ghi_checked" /\ cl[c].op = "LoadBlob" /\ cl[c].ret.exists = FALSE
    /\ CanSend
    /\ serReq' = [type |-> "HostInfo", hi |-> cl[c].arg, from |-> c]
    /\ cl' = [cl EXCEPT ![c].pc = "idle"]
    /\ written' = [written EXCEPT ![c] = cl[c].arg]
    /\ UNCHANGED <<parVars, srvVars, netVars, waitVars, targets, conn, PTR, panicked, lastHandled>>

\* the goroutine that loads the inventory (main.go, commands.go), and a client goroutine
Loader == "c1"
Client == "c2"

NextPTR ==
    \/ LoadBlobExists(Loader)
    \/ LoadBlobSkip(Loader)
    \/ LoadBlobSet(Loader)
    \/ SetConnInfoCall(Client)
    \/ SetConnInfoSend(Client)
    \/ serializer(SerHostExists)
    \/ serializer(SerHostInfo)
    \/ serializer(SerGetPTR)
    \/ serializer(SerSetConnInfo)

SpecPTR == Init /\ [][NextPTR]_vars

\* C16: normalization is idempotent: for every identifier x and every PTR map the
\* program reaches, GetPTR(GetPTR(x)) = GetPTR(x); this includes inventories in which the
\* hostName of a target is the ipAddress of another one, and an empty ipAddress.
C16_GetPTRIdempotent ==
    \A x \in Ids \cup {""} :
        LookupPTR(PTR, LookupPTR(PTR, x)) = LookupPTR(PTR, x)

(***************************************************************************)
(* SpecRun: runEverywhere's goroutines (main.go:337-381), one per          *)
(* connected target, each sending a runRequest, taking the response of     *)
(* runCmd (main.go:175-312) and recording it with SetRunStatus.            *)
(***************************************************************************)
\* what a run meets: the remote command exits with a status, session.Start fails,
\* session.Wait fails without an exit status, or the timeout wins the select; with
\* spooling on or off, and the write of the exit code to the spool file succeeding or not
RunInputs ==
    {in \in [kind : {"exit", "start failed", "wait failed", "timed out"},
             status : {0, 1, 2}, spool : BOOLEAN, written : BOOLEAN] :
        /\ in.kind # "exit" => in.status = 0
        /\ in.kind \in {"start failed", "timed out"} => ~in.spool
        /\ ~in.spool => ~in.written}

\* main.go:263: err = session.Wait(): nil for the status 0, an *ssh.ExitError for a
\* non-zero status, another error when the command did not report a status
WaitErr(in) ==
    IF in.kind = "wait failed" THEN "wait error"
    ELSE IF in.status = 0 THEN "nil" ELSE "ExitError"

\* main.go:263-271: the exit code taken from the ExitError, 255 for another error
ExitCode(in) ==
    IF WaitErr(in) = "nil" THEN 0
    ELSE IF WaitErr(in) = "ExitError" THEN in.status ELSE 255

\* main.go:258-284, 293-302: the runResponse the requester receives; err is the variable
\* session.Wait assigned, assigned again by fmt.Fprintf when spooling
RunResponse(in) ==
    IF in.kind = "start failed" THEN [err |-> "start error", exitCode |-> 0]
    ELSE IF in.kind = "timed out" THEN [err |-> "timed out", exitCode |-> 0]
    ELSE [err |-> IF in.spool
                  THEN IF in.written THEN "nil" ELSE "write error"
                  ELSE WaitErr(in),
          exitCode |-> ExitCode(in)]

\* case setRunStatus (state.go:560-567)
SetRunStatusTargets(tg, h, ok, err) ==
    IF h \in DOMAIN tg
    THEN [tg EXCEPT ![h].runOK = ok, ![h].runOnce = TRUE, ![h].lastError = err]
    ELSE tg

\* main.go:356-365: ci.reqChan <- req: the run starts
RunEverywhereSend(c) ==
    \E in \in RunInputs :
        /\ MayCallConn(c) /\ OwnKey(c) \in DOMAIN conn
        /\ cl' = [cl EXCEPT ![c] = [pc |-> "run_wait", op |-> "runEverywhere", arg |-> in,
                                    nh |-> cl[c].nh, nc |-> cl[c].nc + 1, ret |-> NoReq]]
        /\ UNCHANGED <<parVars, srvVars, netVars, waitVars, targets, conn, PTR, serReq, panicked,
                       written, lastHandled>>

\* main.go:366: resp := <-mychan
RunEverywhereResponse(c) ==
    /\ cl[c].pc = "run_wait"
    /\ cl' = [cl EXCEPT ![c].pc = "run_resp", ![c].ret = RunResponse(cl[c].arg)]
    /\ UNCHANGED <<parVars, srvVars, netVars, waitVars, targets, conn, PTR, serReq, panicked,
                   written, lastHandled>>

\* main.go:367-375: SetRunStatus with runOK: resp.err == nil
RunEverywhereStatus(c) ==
    /\ cl[c].pc = "run_resp" /\ CanSend
    /\ serReq' = [type |-> "setRunStatus", hostName |-> OwnKey(c), from |-> c,
                  runOK |-> (cl[c].ret.err = "nil"), lastError |-> cl[c].ret.err]
    /\ cl' = [cl EXCEPT ![c].pc = "idle"]
    /\ UNCHANGED <<parVars, srvVars, netVars, waitVars, targets, conn, PTR, panicked, written,
                   lastHandled>>

SerSetRunStatus ==
    /\ serReq.type = "setRunStatus"
    /\ targets' = SetRunStatusTargets(targets, serReq.hostName, serReq.runOK, serReq.lastError)
    /\ lastHandled' = serReq
    /\ UNCHANGED <<conn, PTR, panicked, cl>>

\* a target that is connected and has not run anything
LoadedRun(h) ==
    [hostName |-> h, ipAddress |-> IF h = "a" THEN "ip1" ELSE "ip2", connectedOK |-> TRUE,
     runOK |-> FALSE, runOnce |-> FALSE, lastError |-> "nil"]

InitRun ==
    /\ targets = [h \in Names |-> LoadedRun(h)]
    /\ PTR = [i \in IPs |-> IF i = "ip1" THEN "a" ELSE "b"]
    /\ conn = [h \in Names |-> [hostName |-> h, isProxy |-> FALSE, isDirect |-> TRUE,
                                proxyCount |-> 0, reqChan |-> 1]]
    /\ serReq = NoReq
    /\ panicked = FALSE
    /\ InitCallers /\ InitWaiters /\ InitNet /\ InitPar /\ InitSrv

NextRun ==
    \/ \E c \in Callers : RunEverywhereSend(c)
    \/ \E c \in Callers : RunEverywhereResponse(c)
    \/ \E c \in Callers : RunEverywhereStatus(c)
    \/ serializer(SerSetRunStatus)

SpecRun == InitRun /\ [][NextRun]_vars

\* C20: a run whose remote command exits with a non-zero status is not a failure, with
\* and without spooling: the response the requester takes carries that exit code and no
\* err, and the SetRunStatus it sends records runOK = true for the target.
C20_NonZeroExitIsNoFailure ==
    \A c \in Callers :
        LET in == cl[c].arg
            exited == /\ cl[c].op = "runEverywhere"
                      /\ in.kind = "exit" /\ in.status # 0 /\ (in.spool => in.written)
        IN  /\ (exited /\ cl[c].pc = "run_resp")
                  => cl[c].ret.exitCode = in.status /\ cl[c].ret.err = "nil"
            /\ (exited /\ cl[c].pc = "idle" /\ serReq = NoReq
                  /\ lastHandled.type = "setRunStatus" /\ lastHandled.from = c)
                  => targets[OwnKey(c)].runOK

(***************************************************************************)
(* SpecLoop: the remoteHost goroutines of one connection                   *)
(* (remotehost.go:57-143) with the requesters sending on its inbox: resolve *)
(* (proxyRequest), runEverywhere (runRequest), disconnectHost and          *)
(* disconnectEverywhere (cleanupRequest).  A host that was dialed directly *)
(* has one loop per dial that succeeded, all on one inbox (resolve.go:     *)
(* 86-106); a host reached through a proxy has one loop (resolve.go:56-57).*)
(*   lp.isProxy, lp.server, lp.direct  the connection and e.c.Server       *)
(*   lp.sock    the path {ControlPath}/{me}_22: 0 free, -1 a file left by  *)
(*              an earlier process, L the listener of the Mux of loop L    *)
(*   lp.loop    per loop: where it is, and what NewMux gave it             *)
(*   lp.rq      per request: its kind, the loop that took it, its reply    *)
(*   lp.recv, lp.sent  per loop: the requests in the order the loop        *)
(*              received them, and in the order they were answered         *)
(***************************************************************************)
LoopIds == 1 .. BastionConns
RqIds == 1 .. MaxRequests

NoRq == [kind |-> "none", pc |-> "unsent", by |-> 0]

\* remotehost.go:88-95 with NewMux (readline.go:183-205): the Mux is not attempted for a
\* proxy or outside server mode (m and nmErr stay nil); net.ListenUnix binds the path if
\* no file is there, and fails otherwise (the os.Stat test before it does not fire: Stat
\* gives no error for a file that exists)
NewMux(q, L) ==
    IF q.isProxy \/ ~q.server THEN [q EXCEPT !.loop[L].pc = "select"]
    ELSE IF q.sock = 0
         THEN [q EXCEPT !.loop[L].pc = "select", !.loop[L].mux = "created", !.sock = L]
         ELSE [q EXCEPT !.loop[L].pc = "select", !.loop[L].mux = "failed"]

\* a goroutine of the process panicked: the process is gone
Crashed == \E L \in LoopIds : lp.loop[L].pc = "panicked"

\* the requests are numbered in the order they are taken from the inbox
NextRq(q) == lp.rq[q].pc = "unsent" /\ \A p \in RqIds : p < q => lp.rq[p].pc # "unsent"

\* the cleanupRequests the teardown sends for the connection: BastionConns for a direct
\* proxy, one otherwise (unnamed/part_000:66-67, 87-88, 109-110, 126-129)
Cleanups == IF lp.isProxy /\ lp.direct THEN BastionConns ELSE 1

unchangedByLoop == <<stateVars, callerVars, waitVars, netVars, parVars, mx, sv, ou, kc>>

\* remotehost.go:57-95: the goroutine starts: keep-alive session, NewMux
LoopSetup(L) ==
    /\ ~Crashed /\ lp.loop[L].pc = "setup"
    /\ lp' = NewMux(lp, L)
    /\ UNCHANGED unchangedByLoop

\* remotehost.go:98-102: case proxyRequest: go proxyConnect(pReq, e, client)
LoopTakeProxy(L, q) ==
    /\ ~Crashed /\ lp.loop[L].pc = "select" /\ NextRq(q)
    /\ lp.isProxy
    /\ lp' = [lp EXCEPT !.rq[q] = [kind |-> "proxy", pc |-> "serving", by |-> L],
                        !.recv[L] = Append(@, q)]
    /\ UNCHANGED unchangedByLoop

\* remotehost.go:103-105: case runRequest: go runCmd(me, rReq, client, e)
LoopTakeRun(L, q) ==
    /\ ~Crashed /\ lp.loop[L].pc = "select" /\ NextRq(q)
    /\ ~lp.isProxy
    /\ lp' = [lp EXCEPT !.rq[q] = [kind |-> "run", pc |-> "serving", by |-> L],
                        !.recv[L] = Append(@, q)]
    /\ UNCHANGED unchangedByLoop

\* unnamed/part_003:138-159, main.go:288-311: the goroutine of the operation sends its
\* response on the request's channel
OpReply(q) ==
    /\ ~Crashed /\ lp.rq[q].kind \in {"proxy", "run"} /\ lp.rq[q].pc = "serving"
    /\ lp' = [lp EXCEPT !.rq[q].pc = "replied", !.sent[lp.rq[q].by] = Append(@, q)]
    /\ UNCHANGED unchangedByLoop

\* remotehost.go:106-119: case cleanupRequest: session.Close(), client.Close()
LoopTakeCleanup(L, q) ==
    /\ ~Crashed /\ lp.loop[L].pc = "select" /\ NextRq(q)
    /\ Cardinality({p \in RqIds : lp.rq[p].kind = "cleanup"}) < Cleanups
    /\ lp' = [lp EXCEPT !.rq[q] = [kind |-> "cleanup", pc |-> "serving", by |-> L],
                        !.recv[L] = Append(@, q),
                        !.loop[L].pc = "cleanup", !.loop[L].client = "closed"]
    /\ UNCHANGED unchangedByLoop

\* remotehost.go:120-124: if !isProxy && nmErr == nil { m.Close() }, reply, return.
\* m.Close() (readline.go:208-213) sends on m.cc: m is nil when NewMux was not attempted,
\* a nil pointer dereference; handleControlMaster closes the listener (readline.go:441-447)
LoopCleanupReply(L) ==
    /\ ~Crashed /\ lp.loop[L].pc = "cleanup"
    /\ LET q == CHOOSE p \in RqIds : /\ lp.rq[p].kind = "cleanup" /\ lp.rq[p].by = L
                                     /\ lp.rq[p].pc = "serving"
       IN  IF ~lp.isProxy /\ lp.loop[L].mux # "failed"
           THEN IF lp.loop[L].mux = "created"
                THEN lp' = [lp EXCEPT !.loop[L].pc = "returned", !.loop[L].mux = "closed",
                                      !.sock = 0,
                                      !.rq[q].pc = "replied", !.sent[L] = Append(@, q)]
                ELSE lp' = [lp EXCEPT !.loop[L].pc = "panicked"]
           ELSE lp' = [lp EXCEPT !.loop[L].pc = "returned",
                                 !.rq[q].pc = "replied", !.sent[L] = Append(@, q)]
    /\ UNCHANGED unchangedByLoop

\* a connection of any kind, in or outside server mode, with the loops of the dials that
\* succeeded, the path of its socket free or taken by a file of an earlier process
InitLoop ==
    /\ InitState /\ InitCallers /\ InitWaiters /\ InitNet /\ InitPar /\ InitUi
    /\ mx = NoMux
    /\ \E p \in BOOLEAN, sm \in BOOLEAN, d \in BOOLEAN, stale \in BOOLEAN, n \in LoopIds :
          /\ ~d => n = 1
          /\ lp = [cfg |-> "connection", isProxy |-> p, server |-> sm, direct |-> d,
                   sock |-> IF stale THEN -1 ELSE 0,
                   loop |-> [L \in LoopIds |->
                                [pc |-> IF L <= n THEN "setup" ELSE "absent",
                                 mux |-> "not attempted", client |-> "open"]],
                   rq |-> [q \in RqIds |-> NoRq],
                   recv |-> [L \in LoopIds |-> <<>>],
                   sent |-> [L \in LoopIds |-> <<>>]]

NextLoop ==
    \/ \E L \in LoopIds : LoopSetup(L)
    \/ \E L \in LoopIds, q \in RqIds : LoopTakeProxy(L, q)
    \/ \E L \in LoopIds, q \in RqIds : LoopTakeRun(L, q)
    \/ \E q \in RqIds : OpReply(q)
    \/ \E L \in LoopIds, q \in RqIds : LoopTakeCleanup(L, q)
    \/ \E L \in LoopIds : LoopCleanupReply(L)

SpecLoop == InitLoop /\ [][NextLoop]_vars

\* C21: a service loop performs one operation at a time: while a proxyRequest or
\* runRequest it took from its inbox is being served, the loop does not start serving
\* another request on its ssh client, and the replies come in the order the loop received
\* the requests.
C21_OneOperationAtATime ==
    \A L \in LoopIds :
        /\ Cardinality({q \in RqIds : lp.rq[q].by = L /\ lp.rq[q].pc = "serving"}) <= 1
        /\ lp.sent[L] = SubSeq(lp.recv[L], 1, Len(lp.sent[L]))

\* C22: every cleanupRequest a service loop received gets one reply on its response
\* channel and the loop terminates, whatever the connection: proxy or not, server mode on
\* or off, the Mux created, not attempted or failed to create: the loop is handling the
\* request, or it has replied once and returned.
C22_CleanupRepliesAndReturns ==
    \A q \in RqIds :
        lp.rq[q].kind = "cleanup" =>
            LET L == lp.rq[q].by
            IN  \/ lp.loop[L].pc = "cleanup" /\ lp.rq[q].pc = "serving"
                \/ /\ lp.loop[L].pc = "returned" /\ lp.rq[q].pc = "replied"
                   /\ Cardinality({i \in 1 .. Len(lp.sent[L]) : lp.sent[L][i] = q}) = 1

\* C29: in server mode a registered connection that is not a proxy has exactly one
\* control-master listener at {ControlPath}/{hostname}_22 and a proxy has none; NewMux
\* refuses a second listener on a path that exists; the listener is closed when the
\* connection is cleaned up, also for a direct host served by BastionConns loops.
C29_OneListenerPerConnection ==
    LET started == {L \in LoopIds : lp.loop[L].pc # "absent"}
        cleanups == {q \in RqIds : lp.rq[q].kind = "cleanup"}
    IN  /\ lp.isProxy => lp.sock \notin LoopIds
        /\ Cardinality({L \in LoopIds : lp.loop[L].mux = "created"}) <= 1
        /\ ( /\ lp.server /\ ~lp.isProxy /\ lp.sock # -1 /\ cleanups = {}
             /\ \A L \in started : lp.loop[L].pc = "select" ) => lp.sock \in LoopIds
        /\ ( /\ ~lp.isProxy
             /\ \E q \in cleanups : lp.rq[q].pc = "replied" ) => lp.sock \notin LoopIds

(***************************************************************************)
(* SpecMux: one Mux (readline.go:171-555): the listener with               *)
(* acceptControlMaster, a readMsg goroutine per frame, the one             *)
(* handleControlMaster goroutine, a waiter per session, and ssh clients    *)
(* that connect to the socket and send frames.  A payload is a sequence of *)
(* 32-bit words, a word is the pair <<high half, low half>> of its 16-bit  *)
(* halves, and the length of a string counts words.                        *)
(*   mx.listening    the listener m.l is open                              *)
(*   mx.hc           handleControlMaster: "idle" at <-m.cc, or "returned"  *)
(*   mx.crashed      a goroutine panicked: the process is gone             *)
(*   mx.sesscounter  m.sesscounter, a uint32                               *)
(*   mx.sids         the session ids in the order they were assigned       *)
(*   mx.frames       the frames the clients have sent                      *)
(*   mx.c            per connection: the socket, its readMsg goroutine,    *)
(*                   the controlMsg it holds, the frames handled, the      *)
(*                   frames written to the client, the session             *)
(***************************************************************************)
\* the values of a 16-bit half of a uint32
Half == 65536
\* the uint32 of a small number
U32(n) == <<0, n>>
\* 0x00000001, 0x10000002, 0x10000004, 0x80000004, 0x80000005, 0x80000006
MuxMsgHello == <<0, 1>>
MuxCNewSession == <<4096, 2>>
MuxCAliveCheck == <<4096, 4>>
MuxSExitMessage == <<32768, 4>>
MuxSAlive == <<32768, 5>>
MuxSSessionOpened == <<32768, 6>>
\* uint32(os.Getpid())
ServerPid == U32(4711)
\* the message type of a request the Mux does not implement (MUX_C_TERMINATE of mux.c)
MuxCTerminate == <<4096, 5>>
\* session.Wait() returned an error that is no *ssh.ExitError
FakedExitCode == 255
\* the largest uint32
MaxUint32 == <<Half - 1, Half - 1>>
\* a < b on uint32
Less32(a, b) == a[1] < b[1] \/ (a[1] = b[1] /\ a[2] < b[2])

MuxConns == {"u1", "u2"}

\* what an ssh client sends: HELLO(v), ALIVE_CHECK(r), NEW_SESSION(r, tty, command) or a
\* request of another type
ClientMsgs ==
    {[t |-> "hello", v |-> U32(4)]}
    \cup {[t |-> "alive", r |-> U32(r)] : r \in {1, 2}}
    \cup {[t |-> "new", r |-> U32(3), tty |-> TRUE, cmd |-> <<>>],
          [t |-> "new", r |-> U32(3), tty |-> FALSE, cmd |-> <<U32(7)>>]}
    \cup {[t |-> "other"]}

Bool32(b) == IF b THEN U32(1) ELSE U32(0)

\* the payload of a message as OpenSSH's mux client writes it
Encode(cm) ==
    CASE cm.t = "hello" -> <<MuxMsgHello, cm.v>>
      [] cm.t = "alive" -> <<MuxCAliveCheck, cm.r>>
      [] cm.t = "new" -> <<MuxCNewSession, cm.r, U32(0), Bool32(cm.tty), U32(0), U32(0),
                           U32(0), U32(0), U32(0), U32(Len(cm.cmd))>> \o cm.cmd
      [] OTHER -> <<MuxCTerminate, U32(1)>>

\* how a frame arrives: whole; the connection ends inside the 4-byte length prefix; the
\* length prefix is below 4; fewer payload bytes arrive than the prefix announces; the
\* length of the last string exceeds the bytes that remain
Flaws == {"none", "short header", "short length", "short payload", "long string"}

Wire(cm, flaw) ==
    LET w == Encode(cm)
    IN  CASE flaw = "short header" -> [hdr |-> 2, len |-> 0, data |-> <<>>]
          [] flaw = "short length" -> [hdr |-> 4, len |-> 2, data |-> <<>>]
          [] flaw = "short payload" ->
                 [hdr |-> 4, len |-> 4 * Len(w), data |-> SubSeq(w, 1, 1)]
          [] flaw = "long string" ->
                 [hdr |-> 4, len |-> 4 * Len(w),
                  data |-> [w EXCEPT ![Len(w)] = U32(@[2] + 1)]]
          [] OTHER -> [hdr |-> 4, len |-> 4 * Len(w), data |-> w]

\* the frames of the model: every message whole, and each flaw on the messages it matters
\* for
ClientFrames ==
    {[cm |-> cm, flaw |-> "none"] : cm \in ClientMsgs}
    \cup {[cm |-> cm, flaw |-> f] : cm \in {m \in ClientMsgs : m.t = "hello"},
                                     f \in {"short header", "short length", "short payload"}}
    \cup {[cm |-> cm, flaw |-> "long string"] :
              cm \in {m \in ClientMsgs : m.t = "new" /\ m.cmd # <<>>}}

\* readline.go:240-241: buf := make([]byte, moreBytes); conn.Read(buf): the bytes that
\* arrived, the rest of the buffer zero
ReadBuf(f) == [i \in 1 .. (f.len \div 4) |-> IF i <= Len(f.data) THEN f.data[i] ELSE U32(0)]

NoMsg == [MsgType |-> U32(0), data |-> <<>>, f |-> [cm |-> [t |-> "none"], flaw |-> "none"]]
NoSession == [state |-> "none", sid |-> U32(0), fds |-> 0, wired |-> FALSE, pty |-> FALSE]
NoMuxConn ==
    [st |-> "unconnected", rd |-> "none", msg |-> NoMsg, flawed |-> FALSE,
     handled |-> <<>>, out |-> <<>>, sess |-> NoSession]

\* readline.go:251-266, 489-497: sendStruct writes the length and the struct in big
\* endian; a write on a closed socket fails and the error is dropped
sendStruct(q, c, words) ==
    IF q.c[c].st = "open" THEN [q EXCEPT !.c[c].out = Append(@, words)] ELSE q

\* readline.go:538-555: the pull functions slice the stream without a test of its length:
\* ok is FALSE where the slice expression panics
pullUint32(p) ==
    IF ~p.ok \/ Len(p.s) < 1 THEN [ok |-> FALSE, s |-> <<>>, v |-> U32(0)]
    ELSE [ok |-> TRUE, s |-> Tail(p.s), v |-> Head(p.s)]

pullBool(p) ==
    IF ~p.ok \/ Len(p.s) < 1 THEN [ok |-> FALSE, s |-> <<>>, v |-> FALSE]
    ELSE [ok |-> TRUE, s |-> Tail(p.s), v |-> Head(p.s) # U32(0)]

pullString(p) ==
    LET q == pullUint32(p)
    IN  IF ~q.ok THEN [ok |-> FALSE, s |-> <<>>, v |-> <<>>]
        ELSE IF q.v = U32(0) THEN [ok |-> TRUE, s |-> q.s, v |-> <<>>]
        ELSE IF Less32(U32(Len(q.s)), q.v) THEN [ok |-> FALSE, s |-> <<>>, v |-> <<>>]
        ELSE [ok |-> TRUE, s |-> SubSeq(q.s, q.v[2] + 1, Len(q.s)),
              v |-> SubSeq(q.s, 1, q.v[2])]

\* readline.go:522-536
parseNewSession(stream) ==
    LET p1 == pullUint32([ok |-> TRUE, s |-> stream])
        p2 == pullUint32(p1)
        p3 == pullString(p2)
        p4 == pullBool(p3)
        p5 == pullBool(p4)
        p6 == pullBool(p5)
        p7 == pullBool(p6)
        p8 == pullUint32(p7)
        p9 == pullString(p8)
        p10 == pullString(p9)
    IN  [ok |-> p10.ok, MsgType |-> p1.v, RequestID |-> p2.v, WantTTY |-> p4.v,
         Command |-> p10.v]

\* readline.go:278-290: binary.Read into helloMsg{MsgType, Version}, and the struct sent back
HelloReply(buf) == <<buf[1], buf[2]>>

\* readline.go:305-309
AliveReplyNoId(buf) == <<MuxSAlive, U32(0), ServerPid>>
AliveReply(buf) == <<MuxSAlive, buf[2], ServerPid>>

\* readline.go:336: m.sesscounter++ on a uint32
NextSessionIdStuck(n) == n
NextSessionId(n) ==
    IF n[2] < Half - 1 THEN <<n[1], n[2] + 1>> ELSE <<(n[1] + 1) % Half, 0>>

unchangedByMux == <<stateVars, callerVars, waitVars, netVars, parVars, lp, sv, ou, kc>>

MuxUp == mx.cfg = "mux" /\ ~mx.crashed

\* readline.go:215-226: acceptControlMaster: a client connects, go m.readMsg(conn)
MuxAccept(c) ==
    /\ MuxUp /\ mx.listening /\ mx.c[c].st = "unconnected"
    /\ mx' = [mx EXCEPT !.c[c].st = "open", !.c[c].rd = "reading"]
    /\ UNCHANGED unchangedByMux

\* readline.go:228-249: readMsg reads one frame from the socket: it returns on a short
\* header; buf[:4] panics when the length prefix is below 4; otherwise it holds the
\* controlMsg until handleControlMaster takes it from m.cc
MuxReadMsg(c, f) ==
    /\ MuxUp /\ mx.c[c].rd = "reading" /\ mx.frames < MaxFrames
    /\ LET w == Wire(f.cm, f.flaw)
           buf == ReadBuf(w)
           q == [mx EXCEPT !.frames = @ + 1, !.c[c].flawed = @ \/ f.flaw # "none"]
       IN  IF w.hdr # 4 THEN mx' = [q EXCEPT !.c[c].rd = "none"]
           ELSE IF w.len < 4 THEN mx' = [q EXCEPT !.crashed = TRUE]
           ELSE mx' = [q EXCEPT !.c[c].rd = "holding",
                                !.c[c].msg = [MsgType |-> buf[1], data |-> buf,
                                              f |-> f]]
    /\ UNCHANGED unchangedByMux

\* the controlMsg of connection c is the one handleControlMaster takes from m.cc
Takes(c) == MuxUp /\ mx.hc = "idle" /\ mx.c[c].rd = "holding"

Taken(c) == [mx EXCEPT !.c[c].rd = "none", !.c[c].msg = NoMsg,
                       !.c[c].handled = Append(@, mx.c[c].msg.f)]

\* readline.go:275-295: case MuxMsgHello
HandleHello(c) ==
    /\ Takes(c) /\ mx.c[c].msg.MsgType = MuxMsgHello
    /\ LET buf == mx.c[c].msg.data
       IN  IF Len(buf) < 2 THEN mx' = [Taken(c) EXCEPT !.c[c].st = "closed"]
           ELSE mx' = [sendStruct(Taken(c), c, HelloReply(buf)) EXCEPT !.c[c].rd = "reading"]
    /\ UNCHANGED unchangedByMux

\* readline.go:296-320: case MuxCAliveCheck
HandleAliveCheck(c) ==
    /\ Takes(c) /\ mx.c[c].msg.MsgType = MuxCAliveCheck
    /\ LET buf == mx.c[c].msg.data
       IN  IF Len(buf) < 2 THEN mx' = [Taken(c) EXCEPT !.c[c].st = "closed"]
           ELSE mx' = [sendStruct(Taken(c), c, AliveReply(buf)) EXCEPT !.c[c].rd = "reading"]
    /\ UNCHANGED unchangedByMux

\* what the ssh client and the socket do during a NEW_SESSION: no session; the session
\* with the fds received or the first failure at the 1st, 2nd or 3rd, the pty refused or
\* granted, the command started or not
SessionOutcomes ==
    {[sessOK |-> FALSE, failAt |-> 0, ptyOK |-> TRUE, startOK |-> TRUE]}
    \cup {[sessOK |-> TRUE, failAt |-> n, ptyOK |-> TRUE, startOK |-> st] :
              n \in 0 .. 3, st \in BOOLEAN}
    \cup {[sessOK |-> TRUE, failAt |-> 0, ptyOK |-> FALSE, startOK |-> TRUE]}

\* readline.go:321-436: case MuxCNewSession.  sessOK: m.client.NewSession(); failAt: the
\* first of the three getFd calls that fails (0: none; the calls after it fail on the
\* closed socket); ptyOK: session.RequestPty; startOK: session.Start or session.Shell
HandleNewSession(c, sessOK, failAt, ptyOK, startOK) ==
    /\ Takes(c) /\ mx.c[c].msg.MsgType = MuxCNewSession
    /\ LET nsm == parseNewSession(mx.c[c].msg.data)
           sid == mx.sesscounter
           opened == [sendStruct(Taken(c), c, <<MuxSSessionOpened, nsm.RequestID, sid>>)
                        EXCEPT !.sesscounter = NextSessionId(@),
                               !.sids = Append(@, sid),
                               !.c[c].sess.sid = sid,
                               !.c[c].sess.state = "opened"]
           fds == IF failAt = 0 THEN 3 ELSE failAt - 1
           got == [opened EXCEPT !.c[c].sess.fds = fds,
                                 !.c[c].st = IF failAt = 0 THEN @ ELSE "closed"]
       IN  IF ~nsm.ok THEN mx' = [mx EXCEPT !.crashed = TRUE]
           ELSE IF ~sessOK THEN mx' = [Taken(c) EXCEPT !.c[c].st = "closed"]
           ELSE IF nsm.WantTTY /\ ~ptyOK THEN mx' = [got EXCEPT !.c[c].st = "closed"]
           ELSE IF ~startOK
                THEN mx' = [got EXCEPT !.c[c].st = "closed", !.c[c].sess.wired = TRUE,
                                       !.c[c].sess.pty = nsm.WantTTY]
           ELSE mx' = [got EXCEPT !.c[c].sess.wired = TRUE, !.c[c].sess.pty = nsm.WantTTY,
                                  !.c[c].sess.state = "started"]
    /\ UNCHANGED unchangedByMux

\* readline.go:437-439: default: the message is logged
HandleUnhandled(c) ==
    /\ Takes(c)
    /\ mx.c[c].msg.MsgType \notin {MuxMsgHello, MuxCAliveCheck, MuxCNewSession}
    /\ mx' = Taken(c)
    /\ UNCHANGED unchangedByMux

\* readline.go:452-480: waiter: s.Wait(), the exit message, c.Close()
MuxWaiter(c, exitCode) ==
    /\ MuxUp /\ mx.c[c].sess.state = "started"
    /\ mx' = [sendStruct(mx, c, <<MuxSExitMessage, mx.c[c].sess.sid, U32(exitCode)>>)
                EXCEPT !.c[c].sess.state = "exited", !.c[c].st = "closed"]
    /\ UNCHANGED unchangedByMux

\* readline.go:208-213, 441-447: Close(): handleControlMaster takes the controlKill,
\* closes the listener and returns
MuxKill ==
    /\ MuxUp /\ mx.hc = "idle" /\ mx.listening
    /\ mx' = [mx EXCEPT !.listening = FALSE, !.hc = "returned"]
    /\ UNCHANGED unchangedByMux

\* readline.go:183-205: the Mux NewMux returns; wrapNear draws a Mux that has assigned
\* all but the last value of its counter
InitMux ==
    /\ InitState /\ InitCallers /\ InitWaiters /\ InitNet /\ InitPar /\ InitUi
    /\ lp = NoLoops
    /\ \E wrapNear \in BOOLEAN :
          mx = [cfg |-> "mux", listening |-> TRUE, hc |-> "idle", crashed |-> FALSE,
                sesscounter |-> IF wrapNear THEN MaxUint32 ELSE U32(0),
                sids |-> <<>>, frames |-> 0,
                c |-> [c \in MuxConns |-> NoMuxConn]]

NextMux ==
    \/ \E c \in MuxConns : MuxAccept(c)
    \/ \E c \in MuxConns, f \in ClientFrames : MuxReadMsg(c, f)
    \/ \E c \in MuxConns : HandleHello(c)
    \/ \E c \in MuxConns : HandleAliveCheck(c)
    \/ \E c \in MuxConns, o \in SessionOutcomes :
          HandleNewSession(c, o.sessOK, o.failAt, o.ptyOK, o.startOK)
    \/ \E c \in MuxConns : HandleUnhandled(c)
    \/ \E c \in MuxConns, exitCode \in {0, 1, FakedExitCode} : MuxWaiter(c, exitCode)
    \/ MuxKill

SpecMux == InitMux /\ [][NextMux]_vars

\* C24: for a NEW_SESSION the three file descriptors (stdin, stdout, stderr) are received
\* from the client before any stdio is wired, a PTY is requested or the command is
\* started; if a receive fails the connection is closed and the session is neither wired
\* nor started.
C24_ThreeFdsBeforeWiring ==
    \A c \in MuxConns :
        LET ss == mx.c[c].sess
        IN  /\ (ss.wired \/ ss.pty \/ ss.state \in {"started", "exited"}) => ss.fds = 3
            /\ (ss.state # "none" /\ ss.fds < 3) =>
                   /\ mx.c[c].st = "closed"
                   /\ ~ss.wired /\ ss.state \notin {"started", "exited"}

\* the positions of the frames of message type t written to connection c
Written(c, t) == {i \in 1 .. Len(mx.c[c].out) : mx.c[c].out[i][1] = t}

\* C25: on a mux connection that sent NEW_SESSION and whose session started,
\* SESSION_OPENED is sent before EXIT, one EXIT is sent and it carries the session_id
\* that was announced, and the socket is closed only after EXIT was sent.
C25_OpenedThenOneExitThenClose ==
    \A c \in MuxConns :
        LET ss == mx.c[c].sess
            out == mx.c[c].out
            exits == Written(c, MuxSExitMessage)
        IN  ss.state \in {"started", "exited"} =>
                /\ Cardinality(exits) <= 1
                /\ \A i \in exits :
                       /\ out[i][2] = ss.sid
                       /\ \E j \in Written(c, MuxSSessionOpened) : j < i /\ out[j][3] = ss.sid
                /\ ss.state = "exited" => exits # {}
                /\ mx.c[c].st = "closed" => exits # {}

\* C26 as stated: within one Mux the session_ids assigned to successive NEW_SESSION
\* requests are strictly increasing and no two sessions share an id, whatever the
\* interleaving of the connections.
C26_IdsStrictlyIncreasing ==
    \A i, j \in 1 .. Len(mx.sids) : i < j => Less32(mx.sids[i], mx.sids[j])

\* C26, amended: the session_ids are the successive values of a uint32 counter: they are
\* strictly increasing, and no two sessions share an id, except across the wrap of the
\* counter from 2^32 - 1 to 0.
C26_IdsIncreasingUntilWrap ==
    \A i, j \in 1 .. Len(mx.sids) :
        i < j => \/ Less32(mx.sids[i], mx.sids[j])
                 \/ \E k \in i .. (j - 1) :
                        mx.sids[k] = MaxUint32 /\ mx.sids[k + 1] = U32(0)

\* two connections got their session ids from a new Mux
C26_Witness ==
    /\ Len(mx.sids) >= 2 /\ mx.sids[1] = U32(0)
    /\ \A c \in MuxConns : mx.c[c].sess.state # "none"

\* the reply the protocol asks for: HELLO(v) for HELLO(v), ALIVE{r, server pid} for
\* ALIVE_CHECK(r)
Answer(cm) ==
    IF cm.t = "hello" THEN <<MuxMsgHello, cm.v>> ELSE <<MuxSAlive, cm.r, ServerPid>>

\* the first n frames handled on connection c arrived whole and are HELLOs and ALIVE_CHECKs
Polite(h, n) ==
    \A i \in 1 .. n : h[i].flaw = "none" /\ h[i].cm.t \in {"hello", "alive"}

\* C27: a HELLO(v) is answered with HELLO(v) and an ALIVE_CHECK(r) with ALIVE{r, server
\* pid}, each once and in the order the frames arrived on the connection, and after each
\* reply the server reads the next frame of the same connection.
C27_HelloAndAliveAnswered ==
    /\ [](\A c \in MuxConns :
            \A n \in 1 .. Len(mx.c[c].handled) :
                Polite(mx.c[c].handled, n) =>
                    /\ Len(mx.c[c].out) >= n
                    /\ mx.c[c].out[n] = Answer(mx.c[c].handled[n].cm)
                    /\ (n = Len(mx.c[c].handled) => Len(mx.c[c].out) = n))
    /\ [][\A c \in MuxConns :
            ( /\ Len(mx'.c[c].handled) > Len(mx.c[c].handled)
              /\ Polite(mx'.c[c].handled, Len(mx'.c[c].handled)) ) =>
                /\ mx'.c[c].out = Append(mx.c[c].out,
                                         Answer(mx.c[c].msg.f.cm))
                /\ mx'.c[c].rd = "reading" /\ mx'.c[c].st = "open"]_vars

\* a HELLO and then an ALIVE_CHECK were answered on one connection, which is read again
C27_Witness ==
    \E c \in MuxConns :
        /\ Len(mx.c[c].handled) = 2 /\ Polite(mx.c[c].handled, 2)
        /\ mx.c[c].handled[1].cm.t = "hello" /\ mx.c[c].handled[2].cm.t = "alive"
        /\ Len(mx.c[c].out) = 2 /\ mx.c[c].rd = "reading"

\* C28: a short read or a malformed frame (a length prefix below 4, a payload shorter than
\* announced, a string length that exceeds the remaining bytes) closes the offending
\* connection only: the Mux keeps accepting connections and the controller keeps running.
C28_BadFrameClosesOnlyItsConnection ==
    /\ ~mx.crashed
    /\ mx.hc = "idle" => mx.listening
    /\ \A c \in MuxConns :
           /\ (mx.c[c].flawed /\ mx.c[c].rd # "holding") => mx.c[c].st = "closed"
           /\ (~mx.c[c].flawed /\ mx.c[c].st = "closed") =>
                  mx.c[c].sess.state # "none" \/ mx.c[c].handled # <<>>

\* the workers of connectEverywhere that were started and have not finished
InFlight == {r \in ParTargets : rv[r].pc \notin {"idle", "done"}}

Chans == {"s1", "s2", "s3"}

unchangedByServer == <<stateVars, callerVars, waitVars, netVars, parVars, lp, mx, ou, kc>>

\* server.go:82-109: go s.handleChannel(newChannel); the channel is accepted
HandleChannel(c) ==
    /\ sv.ch[c].pc = "new"
    /\ sv' = [sv EXCEPT !.ch[c].pc = "requests"]
    /\ UNCHANGED unchangedByServer

\* server.go:132-161: case "pty-req": with the flag clear the tty is given to readline
PtyReq(c) ==
    /\ sv.ch[c].pc = "requests" /\ ~sv.ch[c].pty
    /\ sv' = [sv EXCEPT !.ch[c].pty = TRUE,
                        !.rl = IF sv.readlineSession THEN @ ELSE c]
    /\ UNCHANGED unchangedByServer

\* server.go:121-123, 129-131: case "shell": if !s.readlineSession; with the flag set
\* cli(con, newE, false) runs the in-process line editor
ShellTest(c) ==
    /\ sv.ch[c].pc = "requests"
    /\ sv' = [sv EXCEPT !.ch[c].pc = IF sv.readlineSession THEN "editor" ELSE "clear"]
    /\ UNCHANGED unchangedByServer

\* server.go:124-128: s.readlineSession = true; go cli(con, newE, true)
ShellReadline(c) ==
    /\ sv.ch[c].pc = "clear"
    /\ sv' = [sv EXCEPT !.readlineSession = TRUE, !.ch[c].pc = "readline"]
    /\ UNCHANGED unchangedByServer

\* server.go:126-127: cli returns and the deferred function clears the flag
CliReadlineReturns(c) ==
    /\ sv.ch[c].pc = "readline"
    /\ sv' = [sv EXCEPT !.readlineSession = FALSE, !.ch[c].pc = "done"]
    /\ UNCHANGED unchangedByServer

\* server.go:130, 172: cli(con, newE, false) returns and the channel's requests end
CliEditorReturns(c) ==
    /\ sv.ch[c].pc = "editor"
    /\ sv' = [sv EXCEPT !.ch[c].pc = "done"]
    /\ UNCHANGED unchangedByServer

\* server.go:34-45: NewSSHServer: the flag clear, no channel yet
InitServer ==
    /\ InitState /\ InitCallers /\ InitWaiters /\ InitNet /\ InitPar
    /\ lp = NoLoops /\ mx = NoMux /\ ou = NoOutput /\ kc = NoClean
    /\ sv = [cfg |-> "server", readlineSession |-> FALSE, rl |-> "",
             ch |-> [c \in Chans |-> [pc |-> "new", pty |-> FALSE]]]

NextServer ==
    \/ \E c \in Chans : HandleChannel(c)
    \/ \E c \in Chans : PtyReq(c)
    \/ \E c \in Chans : ShellTest(c)
    \/ \E c \in Chans : ShellReadline(c)
    \/ \E c \in Chans : CliReadlineReturns(c)
    \/ \E c \in Chans : CliEditorReturns(c)

SpecServer == InitServer /\ [][NextServer]_vars

\* C31: at most one interactive session uses the native readline library at any time,
\* for any interleaving of the incoming channels: only the first session that finds the
\* readlineSession flag clear uses readline, every session that arrives while the flag
\* is set uses the in-process line editor.
C31_OneReadlineSession ==
    Cardinality({c \in Chans : sv.ch[c].pc = "readline"}) <= 1

(***************************************************************************)
(* SpecLoad: two goroutines in JSON.LoadBlob (json.go:52-72) at a time:    *)
(* the target command (commands.go:310-373) run in two sessions of the ssh *)
(* server, each handled by its own goroutine (server.go:82-117).           *)
(***************************************************************************)
\* the entries of the two blobs: two addresses for the name a, one for b
LoadServers ==
    {[hostName |-> "a", ipAddress |-> "ip1", connectedOK |-> FALSE],
     [hostName |-> "a", ipAddress |-> "ip2", connectedOK |-> FALSE],
     [hostName |-> "b", ipAddress |-> "ip1", connectedOK |-> FALSE]}

NextLoad ==
    \/ \E c \in Callers, srv \in LoadServers : LoadBlobEntry(c, srv)
    \/ \E c \in Callers : LoadBlobSkip(c)
    \/ \E c \in Callers : LoadBlobSet(c)
    \/ serializer(SerHostExists)
    \/ serializer(SerHostInfo)

SpecLoad == Init /\ [][NextLoad]_vars

\* C32: LoadBlob skips every entry whose name is a target already: it never overwrites
\* an existing HostInfo (its fields stay as they are), and the count it returns is the
\* number of targets it newly inserted: no step of a LoadBlob changes the HostInfo of a
\* name that is a target.
C32_LoadBlobNeverOverwrites ==
    [][\A n \in DOMAIN targets : targets'[n] = targets[n]]_vars

\* the position of a waitInfo state in newSession -> startSession -> running -> done and
\* in dialing -> establishing -> newClient -> done
StateRank(st) ==
    CASE st \in {stateDialing, stateNewSession} -> 1
      [] st \in {stateEstablishing, stateStartSession} -> 2
      [] st \in {stateNewClient, stateRunning} -> 3
      [] OTHER -> 4

\* the entry of hostname h stays the entry of the same operation in this step, and its
\* state changes
StateChanges(ws, ws2, h) ==
    /\ h \in DOMAIN ws /\ h \in DOMAIN ws2
    /\ ws2[h].op = ws[h].op /\ ws2[h].state # ws[h].state

\* C33: the state of a registered run waiter only advances along newSession ->
\* startSession -> running -> done, that of a connect waiter along dialing ->
\* establishing -> newClient -> done, and a state update issued by the straggling
\* goroutine of an earlier operation that timed out or was aborted never changes the
\* state of the waiter of a later operation for the same hostname: a waiter's state
\* changes to the next state only, in a step of the worker of the waiter's operation.
C33_WaiterStatesAdvance ==
    [][\A h \in WaitHosts :
          /\ StateChanges(connWaiters, connWaiters', h) =>
                /\ StateRank(connWaiters'[h].state) = StateRank(connWaiters[h].state) + 1
                /\ ops'[connWaiters[h].op].worker # ops[connWaiters[h].op].worker
          /\ StateChanges(runWaiters, runWaiters', h) =>
                /\ StateRank(runWaiters'[h].state) = StateRank(runWaiters[h].state) + 1
                /\ ops'[runWaiters[h].op].worker # ops[runWaiters[h].op].worker]_vars

\* C34: for each connect or run request the caller receives exactly one response: an
\* operation that has stopped has sent one, and a response once sent is not followed by
\* another; when the timer or an abort won the race the caller got the timeout or abort
\* error, not the worker's result; when the worker's result won, a drain goroutine
\* waits for the timer's value.
C34_ExactlyOneResponse ==
    /\ [](\A o \in OpIds :
            ops[o].kind \in {"proxy", "run"} =>
               /\ ops[o].pc \in {"done", "blocked"} => ops[o].outcome # "none"
               /\ (ops[o].pc = "done" /\ ops[o].outcome \in {"ok", "err"})
                     => ops[o].drain \in {"waiting", "done"}
               /\ (ops[o].pc = "done" /\ ops[o].outcome \in {"timed out", "aborted"})
                     => ops[o].drain = "none")
    /\ [][\A o \in OpIds :
            ops[o].outcome # "none" => ops'[o].outcome = ops[o].outcome]_vars

(***************************************************************************)
(* SpecClean: the commands connect, run and clean of one cli session, one  *)
(* after the other (commands.go:219-250, 279-306, 443-465): connect is     *)
(* connectEverywhere of SpecPar, run records a status for every connected  *)
(* target, clean starts a goroutine for every failed target, which calls   *)
(* disconnectHost (unnamed/part_000:60-70) and DeleteHostInfo.             *)
(***************************************************************************)
\* no connect command is running
ConnectIdle ==
    /\ ce.pc \in {"idle", "done"}
    /\ \A r \in ParResolvers : rv[r].pc \in {"idle", "done"}

\* no clean command is running
CleanIdle == kc.pc \in {"idle", "done"}

\* commands.go:443-465 connect, entered at the prompt of the cli
CleanConnect == CleanIdle /\ ConnectEverywhere

\* main.go:337-375 runEverywhere: the goroutine of a connected target that is no proxy
\* takes the response of its run, ok telling whether it carries no err, and sends
\* SetRunStatus (a run command runs each target once)
RunEverywhereHost(h, ok) ==
    /\ ConnectIdle /\ CleanIdle /\ CanSend
    /\ h \in DOMAIN conn /\ ~conn[h].isProxy /\ h \notin kc.ran
    /\ targets' = SetRunStatusTargets(targets, h, ok, IF ok THEN "nil" ELSE "error")
    /\ kc' = [kc EXCEPT !.ran = @ \cup {h}]
    /\ UNCHANGED <<conn, PTR, serReq, panicked, callerVars, waitVars, netVars, parVars,
                   lp, mx, sv, ou>>

\* commands.go:231: the test clean makes on a HostInfo
CleanFailed(hi) == ~hi.connectedOK \/ (~hi.runOK /\ hi.runOnce)

\* case deleteHostInfo (state.go:595-598)
DeleteHostInfoTargets(tg, h) == [k \in DOMAIN tg \ {h} |-> tg[k]]

unchangedByClean == <<PTR, serReq, panicked, callerVars, waitVars, rs, de, torn, parVars,
                      lp, mx, sv, ou>>

\* commands.go:219-224: hk = GetHostKeys()
CleanStart ==
    /\ ConnectIdle /\ kc.pc \in {"idle", "done"} /\ kc.n < MaxCleans /\ CanSend
    /\ kc' = [kc EXCEPT !.n = @ + 1, !.pc = "loop", !.hk = DOMAIN targets, !.i = 0,
                        !.w = [t \in ParTargets |-> NoCleaner]]
    /\ UNCHANGED <<targets, conn, loops, unchangedByClean>>

\* commands.go:225-231: GetHostInfo fails, or the target has not failed: next host
CleanSkip ==
    \E h \in kc.hk :
        /\ kc.pc = "loop" /\ CanSend
        /\ h \notin DOMAIN targets \/ ~CleanFailed(targets[h])
        /\ kc' = [kc EXCEPT !.hk = @ \ {h}]
        /\ UNCHANGED <<targets, conn, loops, unchangedByClean>>

\* commands.go:231-234: wg.Add(1), i++, go func(host, hi)
CleanSpawn ==
    \E h \in kc.hk :
        /\ kc.pc = "loop" /\ CanSend
        /\ h \in DOMAIN targets /\ CleanFailed(targets[h])
        /\ kc' = [kc EXCEPT !.hk = @ \ {h}, !.i = @ + 1,
                            !.w[h] = [NoCleaner EXCEPT !.pc = "start", !.hi = targets[h]]]
        /\ UNCHANGED <<targets, conn, loops, unchangedByClean>>

\* commands.go:236-237, unnamed/part_000:61-65: a target that was connected:
\* disconnectHost, whose GetConnInfo returns the ConnInfo or an error
CleanerDisconnect(h) ==
    /\ kc.w[h].pc = "start" /\ CanSend
    /\ kc' = IF kc.w[h].hi.connectedOK /\ h \in DOMAIN conn
             THEN [kc EXCEPT !.w[h].pc = "cleanup", !.w[h].ci = conn[h]]
             ELSE [kc EXCEPT !.w[h].pc = "delete"]
    /\ UNCHANGED <<targets, conn, loops, unchangedByClean>>

\* unnamed/part_000:66-67: ci.reqChan <- cleanupRequest{respChan}; <-respChan: one loop
\* listening on the channel takes the request, closes its session and its client,
\* replies and returns (remotehost.go:106-124)
CleanerCleanup(h) ==
    \E L \in Listening(kc.w[h].ci.reqChan) :
        /\ kc.w[h].pc = "cleanup" /\ ~panicked
        /\ loops' = [loops EXCEPT ![L].running = FALSE]
        /\ kc' = [kc EXCEPT !.w[h].pc = "unregister"]
        /\ UNCHANGED <<targets, conn, unchangedByClean>>

\* unnamed/part_000:68: e.s.DeleteConnInfo(host)
CleanerDeleteConn(h) ==
    /\ kc.w[h].pc = "unregister" /\ CanSend
    /\ conn' = DeleteConnInfoConn(conn, h)
    /\ kc' = [kc EXCEPT !.w[h].pc = "delete"]
    /\ UNCHANGED <<targets, loops, unchangedByClean>>

\* commands.go:242: e.s.DeleteHostInfo(host), and the deferred wg.Done()
CleanerDeleteHost(h) ==
    /\ kc.w[h].pc = "delete" /\ CanSend
    /\ targets' = DeleteHostInfoTargets(targets, h)
    /\ kc' = [kc EXCEPT !.w[h].pc = "done"]
    /\ UNCHANGED <<conn, loops, unchangedByClean>>

\* commands.go:246-249: wg.Wait(), the message, return
CleanDone ==
    /\ kc.pc = "loop" /\ kc.hk = {}
    /\ \A t \in ParTargets : kc.w[t].pc \in {"none", "done"}
    /\ kc' = [kc EXCEPT !.pc = "done"]
    /\ UNCHANGED <<targets, conn, loops, unchangedByClean>>

\* the chains of the two targets: dialed directly, or through the proxy "bastion"
CleanPrefixes == { <<>>, <<"bastion">> }

\* a target as loaded: not connected, nothing run
LoadedClean(t, P) ==
    [hostName |-> t, ipAddress |-> IF t = "b" THEN "ip1" ELSE "ip2", connectedOK |-> FALSE,
     runOK |-> FALSE, runOnce |-> FALSE, lastError |-> "", chain |-> Append(P, t)]

InitClean ==
    /\ \E P \in CleanPrefixes :
          /\ targets = HostInfoTargets(HostInfoTargets([k \in {} |-> NoHost],
                                                       LoadedClean("b", P)),
                                       LoadedClean("c", P))
          /\ PTR = HostInfoPTR(HostInfoPTR([k \in {} |-> ""], LoadedClean("b", P)),
                               LoadedClean("c", P))
    /\ conn = [k \in {} |-> NoConn]
    /\ serReq = NoReq
    /\ panicked = FALSE
    /\ InitCallers /\ InitWaiters /\ InitNet /\ InitPar /\ InitSrv

NextClean ==
    \/ CleanConnect
    \/ ProxiesSkip
    \/ ProxiesResolve
    \/ ProxiesReturned
    \/ ProxiesDone
    \/ SpawnSkip
    \/ SpawnWorker
    \/ \E r \in ParTargets : WorkerStart(r)
    \/ \E r \in ParTargets : WorkerStatus(r)
    \/ ConnectDone
    \/ \E r \in ParResolvers : PResolveExists(r)
    \/ \E r \in ParResolvers : PResolveDirectStart(r)
    \/ \E r \in ParResolvers : PResolveDirectConnected(r)
    \/ \E r \in ParResolvers : PResolveDirectFailed(r)
    \/ \E r \in ParResolvers : PResolveDirectWait(r)
    \/ \E r \in ParResolvers : PResolveProxyGet(r)
    \/ \E r \in ParResolvers : PResolveProxyConnected(r)
    \/ \E r \in ParResolvers : PResolveProxyFailed(r)
    \/ \E r \in ParResolvers : PResolveInc(r)
    \/ \E r \in ParResolvers : PResolveRegister(r)
    \/ \E h \in ParTargets, ok \in BOOLEAN : RunEverywhereHost(h, ok)
    \/ CleanStart
    \/ CleanSkip
    \/ CleanSpawn
    \/ \E h \in ParTargets : CleanerDisconnect(h)
    \/ \E h \in ParTargets : CleanerCleanup(h)
    \/ \E h \in ParTargets : CleanerDeleteConn(h)
    \/ \E h \in ParTargets : CleanerDeleteHost(h)
    \/ CleanDone

SpecClean == InitClean /\ [][NextClean]_vars

\* the registered connections whose client was dialed through a client of p
Through(p) ==
    {h \in DOMAIN conn \ {p} :
        \E M \in 1 .. Len(loops) :
            /\ loops[M].hostName = h /\ loops[M].chan = conn[h].reqChan
            /\ loops[M].via # 0 /\ loops[loops[M].via].hostName = p}

\* C35: in every quiescent state (no connect and no clean running) the proxyCount of a
\* registered connection p equals the number of registered connections that were
\* established by tunnelling directly through p; it decreases when such a
\* sub-connection is torn down by disconnectHost or clean.
C35_ProxyCountIsSubConnections ==
    (ConnectIdle /\ CleanIdle /\ ~panicked) =>
        \A p \in DOMAIN conn : conn[p].proxyCount = Cardinality(Through(p))

\* the state clean is to leave: every target left is connected and has not failed a run,
\* and no ConnInfo and no running service loop is left for a target that was deleted
CleanedUp(tg, cn, lps) ==
    /\ \A h \in DOMAIN tg : tg[h].connectedOK /\ ~(tg[h].runOnce /\ ~tg[h].runOK)
    /\ \A h \in ParTargets \ DOMAIN tg :
          /\ h \notin DOMAIN cn
          /\ \A L \in 1 .. Len(lps) : lps[L].hostName = h => ~lps[L].running

\* C38: when clean returns (no connect and no run running beside it), every target left
\* has connectedOK = true and not (runOnce and not runOK), every failed target is
\* deleted, and no ConnInfo and no running service loop remains for a deleted target.
C38_CleanLeavesNoFailedTarget ==
    [][(kc.pc = "loop" /\ kc'.pc = "done") => CleanedUp(targets', conn', loops')]_vars

(***************************************************************************)
(* SpecPw: the password callbacks of the dials (resolve.go:74-84,          *)
(* unnamed/part_003:104-114), run by the ssh library in the goroutine of   *)
(* each dial when the server asks for a password: GetPTR of the hop,       *)
(* SetRequiresPw, GetAuthPass.                                             *)
(***************************************************************************)
\* the hops the dials go to: the target a by name, the target b by its ip address, and
\* a proxy that is not among the targets
PwHops == {"a", "ip2", "bastion"}

\* State.sshAuthPass, set once by main before any dial (main.go:112)
AuthPass == "the password"

\* case setRequiresPw (state.go:543-545), the key being present
SetRequiresPwTargets(tg, h) == [tg EXCEPT ![h].requiresPw = TRUE]

\* host := e.s.GetPTR(link) (state.go:67-72, 546-552)
PwGetPTR(c, h) ==
    /\ MayCallHost(c) /\ CanSend
    /\ cl' = [cl EXCEPT ![c] = [pc |-> "pw_named", op |-> "pwClosure", arg |-> h,
                                nh |-> cl[c].nh + 1, nc |-> cl[c].nc,
                                ret |-> [type |-> "name",
                                         hostName |-> LookupPTR(PTR, h)]]]
    /\ UNCHANGED <<stateVars, written, lastHandled, waitVars, netVars, parVars, srvVars>>

\* e.s.SetRequiresPw(host) (state.go:157-159): one send, no reply channel
PwSetRequiresPw(c) ==
    /\ cl[c].pc = "pw_named" /\ CanSend
    /\ serReq' = [type |-> "setRequiresPw", hostName |-> cl[c].ret.hostName, from |-> c]
    /\ cl' = [cl EXCEPT ![c].pc = "pw_sent"]
    /\ UNCHANGED <<targets, conn, PTR, panicked, written, lastHandled, waitVars, netVars,
                   parVars, srvVars>>

\* case setRequiresPw: s.targets[hostName].requiresPw = true, a nil pointer dereference
\* when the map holds no entry under the name
SerSetRequiresPw ==
    /\ serReq.type = "setRequiresPw"
    /\ IF serReq.hostName \in DOMAIN targets
       THEN /\ targets' = SetRequiresPwTargets(targets, serReq.hostName)
            /\ UNCHANGED panicked
       ELSE panicked' = TRUE /\ UNCHANGED targets
    /\ lastHandled' = serReq
    /\ UNCHANGED <<conn, PTR, cl>>

\* return e.s.GetAuthPass(), nil (state.go:132-137, 571-573)
PwGetAuthPass(c) ==
    /\ cl[c].pc = "pw_sent" /\ CanSend
    /\ cl' = [cl EXCEPT ![c].pc = "idle", ![c].ret = [type |-> "password",
                                                       password |-> AuthPass]]
    /\ UNCHANGED <<stateVars, written, lastHandled, waitVars, netVars, parVars, srvVars>>

\* a target as loaded by the target command, no password asked yet
LoadedPw(h) ==
    [hostName |-> h, ipAddress |-> IF h = "a" THEN "ip1" ELSE "ip2", connectedOK |-> FALSE,
     requiresPw |-> FALSE]

InitPw ==
    /\ targets = [h \in Names |-> LoadedPw(h)]
    /\ PTR = [i \in IPs |-> IF i = "ip1" THEN "a" ELSE "b"]
    /\ conn = [k \in {} |-> NoConn]
    /\ serReq = NoReq
    /\ panicked = FALSE
    /\ InitCallers /\ InitWaiters /\ InitNet /\ InitPar /\ InitSrv

NextPw ==
    \/ \E c \in Callers, h \in PwHops : PwGetPTR(c, h)
    \/ \E c \in Callers : PwSetRequiresPw(c)
    \/ \E c \in Callers : PwGetAuthPass(c)
    \/ serializer(SerSetRequiresPw)

SpecPw == InitPw /\ [][NextPw]_vars

\* C36: with password authentication, the password callback invoked for the hop h sets
\* requiresPw on the target whose canonical name is GetPTR(h), changes no other target
\* and returns the shared password, for every hop, also a bastion hop that is not among
\* the targets: the callback runs to its end.
C36_CallbackMarksTheHop ==
    /\ [][(serReq.type = "setRequiresPw" /\ serReq' = NoReq) =>
            /\ ~panicked'
            /\ serReq.hostName = LookupPTR(PTR, cl[serReq.from].arg)
            /\ \A n \in DOMAIN targets :
                  targets'[n] = IF n = serReq.hostName
                                THEN [targets[n] EXCEPT !.requiresPw = TRUE]
                                ELSE targets[n]]_vars
    /\ [](\A c \in Callers : cl[c].ret.type = "password" => cl[c].ret.password = AuthPass)

\* the first connect command of SpecPar has returned and every dial it made succeeded
FirstConnectSucceeded ==
    /\ ce.n = 1 /\ ce.pc = "done" /\ ~panicked
    /\ \A r \in ParResolvers : ~rv[r].failed /\ ~rv[r].err

Outs == {"session", "quiet"}
\* the goroutines that write: one per host, and the run command itself
OutHosts == {"a", "b"}
Writers == OutHosts \cup {"run"}
\* what a command writes to its stdout: nothing, or a line
StdOuts == { <<>>, <<"x", "\n">> }
NoOutReq == [from |-> "", out |-> <<>>, replying |-> FALSE]
NoWriter == [pc |-> "none", o |-> "session", out |-> <<>>, sent |-> FALSE]

\* summary.go:347: nlRegex.ReplaceAll(out, "\n\r")
RECURSIVE AddCR(_)
AddCR(out) ==
    IF out = <<>> THEN <<>>
    ELSE IF Head(out) = "\n" THEN <<"\n", "\r">> \o AddCR(Tail(out))
    ELSE <<Head(out)>> \o AddCR(Tail(out))

unchangedByOut == <<stateVars, callerVars, waitVars, netVars, parVars, lp, mx, sv, kc>>

\* commands.go:279-304: run [-q] cmd: with -q NewOutput(e.o.DupeOuput()), o.Mute(),
\* newEnv.o = o; runEverywhere starts a goroutine for every connected host
RunStart(q) ==
    /\ ou.pc = "prompt"
    /\ ou' = [ou EXCEPT !.pc = "wait", !.quiet = q, !.mute["quiet"] = q,
                        !.w = [w \in Writers |->
                                 IF w \in OutHosts
                                 THEN [NoWriter EXCEPT !.pc = "run",
                                                       !.o = IF q THEN "quiet" ELSE "session"]
                                 ELSE NoWriter]]
    /\ UNCHANGED unchangedByOut

\* main.go:365-377: resp := <-mychan, SetRunStatus; if resp.stdOut != "" { e.o.Out(...) }
\* and the deferred wg.Done()
HostResponse(h, so) ==
    /\ ou.w[h].pc = "run"
    /\ ou' = IF so = <<>>
             THEN [ou EXCEPT !.w[h].pc = "done"]
             ELSE [ou EXCEPT !.w[h].pc = "out", !.w[h].out = <<"host", h, "\n">> \o so]
    /\ UNCHANGED unchangedByOut

\* summary.go:343-352 doOutput: respChan := make(chan bool); when the Output is not
\* muted the message is sent to the serializer, which is at its receive
DoOutputSend(w) ==
    /\ ou.w[w].pc = "out"
    /\ IF ou.mute[ou.w[w].o]
       THEN ou' = [ou EXCEPT !.w[w].pc = "receive", !.w[w].sent = FALSE]
       ELSE /\ ou.req[ou.w[w].o] = NoOutReq
            /\ ou' = [ou EXCEPT !.w[w].pc = "receive", !.w[w].sent = TRUE,
                                !.req[ou.w[w].o] =
                                    [from |-> w, replying |-> FALSE,
                                     out |-> IF ou.addCR THEN AddCR(ou.w[w].out)
                                             ELSE ou.w[w].out]]
    /\ UNCHANGED unchangedByOut

\* summary.go:327-335 serializer, case outputString: fmt.Fprint(osReq.fd, osReq.out),
\* then osReq.respChan <- true
OutSerializer(o) ==
    /\ ou.req[o] # NoOutReq /\ ~ou.req[o].replying
    /\ ou' = [ou EXCEPT !.printed = @ \o ou.req[o].out, !.req[o].replying = TRUE]
    /\ UNCHANGED unchangedByOut

\* summary.go:353: <-respChan, doOutput returns; the goroutine of a host ends
\* (wg.Done()), the run command returns
DoOutputReturn(w) ==
    /\ ou.w[w].pc = "receive"
    /\ ou.req[ou.w[w].o].from = w /\ ou.req[ou.w[w].o].replying
    /\ ou' = [ou EXCEPT !.w[w].pc = "done", !.req[ou.w[w].o] = NoOutReq,
                        !.pc = IF w = "run" THEN "returned" ELSE @]
    /\ UNCHANGED unchangedByOut

\* main.go:379, commands.go:304-305: wg.Wait() returns, e.o.Out("Done in %.2fs.\n")
RunWaited ==
    /\ ou.pc = "wait"
    /\ \A h \in OutHosts : ou.w[h].pc = "done"
    /\ ou' = [ou EXCEPT !.pc = "done message",
                        !.w["run"] = [NoWriter EXCEPT !.pc = "out",
                                                      !.out = <<"Done", "\n">>]]
    /\ UNCHANGED unchangedByOut

\* the Output of the session: of a terminal (addCR false) or of an ssh client
InitOut ==
    /\ InitState /\ InitCallers /\ InitWaiters /\ InitNet /\ InitPar
    /\ lp = NoLoops /\ mx = NoMux /\ sv = NoServer /\ kc = NoClean
    /\ \E cr \in BOOLEAN :
          ou = [cfg |-> "output", pc |-> "prompt", quiet |-> FALSE, addCR |-> cr,
                mute |-> [o \in Outs |-> FALSE], req |-> [o \in Outs |-> NoOutReq],
                printed |-> <<>>, w |-> [w \in Writers |-> NoWriter]]

NextOut ==
    \/ \E q \in BOOLEAN : RunStart(q)
    \/ \E h \in OutHosts, so \in StdOuts : HostResponse(h, so)
    \/ \E w \in Writers : DoOutputSend(w)
    \/ \E o \in Outs : OutSerializer(o)
    \/ \E w \in Writers : DoOutputReturn(w)
    \/ RunWaited

SpecOut == InitOut /\ [][NextOut]_vars

\* C39: a write through a muted Output (Out, Err, ErrExit after Mute) discards the
\* message and returns without blocking: no goroutine is left receiving a reply to a
\* message that was never sent to the serializer, and nothing of it is printed; so
\* run -q returns also when hosts produce stdout.
C39_MutedWriteReturns ==
    /\ \A w \in Writers : ou.w[w].pc = "receive" => ou.w[w].sent
    /\ ou.quiet => \A i \in 1 .. Len(ou.printed) : ou.printed[i] # "x"

(***************************************************************************)
(* SpecAlive: the BastionConns remoteHost goroutines of a proxy that was   *)
(* dialed directly, all selecting on the one inbox of its ConnInfo         *)
(* (resolve.go:71-105), their keep-alives (remotehost.go:76-86, 126-140),  *)
(* and the disconnectHost goroutines a failed keep-alive starts            *)
(* (unnamed/part_000:60-70).                                               *)
(*   lp.registered  the ConnInfo of the host is in State.conn              *)
(*   lp.loop        per loop: "select" or "returned", and its ssh client:  *)
(*                  "open", "failed" (the connection is dead), "closed";   *)
(*                  was: the client as it was when the loop closed it      *)
(*   lp.d           per disconnectHost goroutine: its position, the loop   *)
(*                  that started it (of), the loop that served it (by)     *)
(***************************************************************************)
DiscIds == 1 .. MaxKeepAlives
NoDisc == [pc |-> "none", of |-> 0, by |-> 0]

\* the connection of an ssh client dies (the network, the remote host)
ClientFails(L) ==
    /\ lp.loop[L].pc = "select" /\ lp.loop[L].client = "open"
    /\ lp' = [lp EXCEPT !.loop[L].client = "failed"]
    /\ UNCHANGED unchangedByLoop

\* remotehost.go:126-140: case <-keepAliveChan: session.SendRequest fails on a dead
\* client: go disconnectHost(e, me); the loop goes on selecting
KeepAliveFails(L, d) ==
    /\ lp.loop[L].pc = "select" /\ lp.loop[L].client = "failed"
    /\ lp.d[d].pc = "none" /\ \A p \in DiscIds : p < d => lp.d[p].pc # "none"
    /\ lp' = [lp EXCEPT !.d[d] = [pc |-> "start", of |-> L, by |-> 0]]
    /\ UNCHANGED unchangedByLoop

\* unnamed/part_000:61-65: ci, err := e.s.GetConnInfo(host); return err
DisconnectGet(d) ==
    /\ lp.d[d].pc = "start"
    /\ lp' = [lp EXCEPT !.d[d].pc = IF lp.registered THEN "send" ELSE "done"]
    /\ UNCHANGED unchangedByLoop

\* unnamed/part_000:66-67: ci.reqChan <- cleanupRequest{respChan}; <-respChan: a loop
\* that is selecting on the inbox takes the request, closes its session and its client,
\* replies and returns (remotehost.go:106-124; a proxy has no Mux)
DisconnectCleanup(d, L) ==
    /\ lp.d[d].pc = "send"
    /\ lp.loop[L].pc = "select"
    /\ lp' = [lp EXCEPT !.d[d].pc = "delete", !.d[d].by = L,
                        !.loop[L] = [pc |-> "returned", client |-> "closed",
                                     was |-> lp.loop[L].client]]
    /\ UNCHANGED unchangedByLoop

\* unnamed/part_000:68-69: e.s.DeleteConnInfo(host); return nil
DisconnectDelete(d) ==
    /\ lp.d[d].pc = "delete"
    /\ lp' = [lp EXCEPT !.d[d].pc = "done", !.registered = FALSE]
    /\ UNCHANGED unchangedByLoop

\* resolve.go:85-105: every one of the BastionConns dials succeeded
InitAlive ==
    /\ InitState /\ InitCallers /\ InitWaiters /\ InitNet /\ InitPar /\ InitUi
    /\ mx = NoMux
    /\ lp = [cfg |-> "keep-alive", registered |-> TRUE,
             loop |-> [L \in LoopIds |-> [pc |-> "select", client |-> "open",
                                          was |-> "open"]],
             d |-> [d \in DiscIds |-> NoDisc]]

NextAlive ==
    \/ \E L \in LoopIds : ClientFails(L)
    \/ \E L \in LoopIds, d \in DiscIds : KeepAliveFails(L, d)
    \/ \E d \in DiscIds : DisconnectGet(d)
    \/ \E d \in DiscIds, L \in LoopIds : DisconnectCleanup(d, L)
    \/ \E d \in DiscIds : DisconnectDelete(d)

SpecAlive == InitAlive /\ [][NextAlive]_vars

\* C40: when a keep-alive fails on one of the BastionConns clients of a direct host, the
\* cleanup request this schedules is served by the loop that owns the failed client; a
\* healthy sibling is never the one that closes its client; and no loop with a failed
\* client keeps running after the ConnInfo of the host is deleted.
C40_FailedLoopServesItsCleanup ==
    /\ \A d \in DiscIds : lp.d[d].by # 0 => lp.d[d].by = lp.d[d].of
    /\ \A L \in LoopIds : lp.loop[L].client = "closed" => lp.loop[L].was = "failed"
    /\ ~lp.registered =>
          \A L \in LoopIds : ~(lp.loop[L].pc = "select" /\ lp.loop[L].client = "failed")

====
